---- MODULE Spec2Model ----
(***************************************************************************)
(* VL53L0X time-of-flight sensor driver (Core/Src/VL53L0X.c): the timing   *)
(* budget allocator, the VCSEL pulse period controller, the timeout codec  *)
(* and the single reference calibration, as a state machine over the       *)
(* device's registers and the caller-owned handle.                         *)
(*                                                                         *)
(* Registers are named by the macro the source uses; a register the source *)
(* addresses by a literal is named by that literal ("0xFF").  A 16-bit     *)
(* register written with writeReg16Bit is one entry holding 16 bits.       *)
(***************************************************************************)
EXTENDS Integers, Sequences, FiniteSets, TLC

VARIABLES
  regs,     \* device register file: register name -> value
  dev,      \* struct VL53L0X: the handle's fields
  pc,       \* "idle", or the poll loop a call sits in: "calib"
            \* (VL53L0X_performSingleRefCalibration), "spad"
            \* (VL53L0X_getSpadInfo), "range" (VL53L0X_readRangeSingleMillimeters)
  answers,  \* whether the device will ever give the answer that ends the
            \* poll loop the call sits in
  frame,    \* locals of the call suspended in the poll loop
  call,     \* the public call last entered: [op, type, period, budget]
  ret,      \* its boolean result (bool-returning functions)
  val,      \* its numeric result (value-returning functions)
  writes,   \* the register writes it has issued so far, in order
  regs0,    \* the register file when it was entered
  dev0,     \* the handle when it was entered
  calls,    \* number of public calls entered so far
  cin,      \* codec harness: the timeout in MCLKs given to encodeTimeout
  cenc,     \* codec harness: the encoded register value
  cdec,     \* codec harness: the value decoded back
  cper,     \* conversion harness: the VCSEL period in PCLKs
  cstage    \* harness position: "off"; "input", "encoded", "decoded";
            \* "register", "regdecoded"; "clocks", "clocks_us", "clocks_back";
            \* "micros", "micros_clocks", "micros_back"

vars == <<regs, dev, pc, answers, frame, call, ret, val, writes, regs0, dev0, calls,
          cin, cenc, cdec, cper, cstage>>

mainVars  == <<regs, dev, pc, answers, frame, call, ret, val, writes, regs0, dev0,
              calls>>
codecVars == <<cin, cenc, cdec, cper, cstage>>

(***************************************************************************)
(* Bounds of the model.                                                    *)
(***************************************************************************)
\* number of public driver calls explored from each initial device state
MaxCalls == 2
\* the conversion harness takes every microsecond value up to this one
MaxMicroseconds == 4095

(***************************************************************************)
(* Fixed-width integer arithmetic.  A uint32_t that may exceed 2^31 is     *)
(* kept as four bytes, most significant first.                             *)
(***************************************************************************)
U8  == 256
U16 == 65536

Bit(x, k) == (x \div (2 ^ k)) % 2

Byte(x, i) == (x \div (256 ^ i)) % 256

RECURSIVE Or8(_, _, _)
\* x | y on uint8_t, from bit k up
Or8(x, y, k) ==
  IF k = 8 THEN 0
  ELSE (IF Bit(x, k) = 1 \/ Bit(y, k) = 1 THEN 2 ^ k ELSE 0) + Or8(x, y, k + 1)

RECURSIVE AndNot8(_, _, _)
\* x & ~y on uint8_t, from bit k up
AndNot8(x, y, k) ==
  IF k = 8 THEN 0
  ELSE (IF Bit(x, k) = 1 /\ Bit(y, k) = 0 THEN 2 ^ k ELSE 0) + AndNot8(x, y, k + 1)

\* (a * b + c) mod 2^32 for a < 2^31, b < 2^20, c < 2^24
MulAdd32(a, b, c) ==
  LET t0 == Byte(a, 0) * b + c
      t1 == Byte(a, 1) * b + (t0 \div 256)
      t2 == Byte(a, 2) * b + (t1 \div 256)
      t3 == Byte(a, 3) * b + (t2 \div 256)
  IN  << t3 % 256, t2 % 256, t1 % 256, t0 % 256 >>

\* x / d for a four-byte x and 1 <= d < 2^20 (unsigned integer division)
Div32(x, d) ==
  LET q0 == x[1] \div d
      r0 == x[1] % d
      n1 == r0 * 256 + x[2]
      q1 == n1 \div d
      n2 == (n1 % d) * 256 + x[3]
      q2 == n2 \div d
      n3 == (n2 % d) * 256 + x[4]
      q3 == n3 \div d
  IN  ((q0 * 256 + q1) * 256 + q2) * 256 + q3

(***************************************************************************)
(* Macros and the timeout codec.                                           *)
(***************************************************************************)
\* decodeVcselPeriod(reg_val), as returned through uint8_t
decodeVcselPeriod(reg_val) == ((reg_val + 1) * 2) % U8

encodeVcselPeriodOffByOne(period_pclks) == (period_pclks \div 2) % U8

\* encodeVcselPeriod(period_pclks), as stored in uint8_t vcsel_period_reg
encodeVcselPeriod(period_pclks) == ((period_pclks \div 2) - 1) % U8

\* calcMacroPeriod(vcsel_period_pclks): nanoseconds, no wrap for a uint8_t period
calcMacroPeriod(vcsel_period_pclks) ==
  ((2304 * vcsel_period_pclks * 1655) + 500) \div 1000

VL53L0X_decodeTimeoutNoIncrement(reg_val) ==
  LET ls == reg_val % 256
      ms == (reg_val \div 256) % 256
  IN  CASE ms < 16 -> (ls * (2 ^ ms)) % U16
        [] ms \in 16..31 -> 0

\* VL53L0X_decodeTimeout: (uint16_t)(LSByte << MSByte) + 1, returned as uint16_t.
\* For MSByte in 16..31 the 16 low bits of the shifted int are zero.  For
\* MSByte of 32 or more the shift of line 1383 is undefined and the operator
\* has no value: VL53L0X_decodeTimeoutOutcomes lists what a build can return.
VL53L0X_decodeTimeout(reg_val) ==
  LET ls == reg_val % 256
      ms == (reg_val \div 256) % 256
  IN  CASE ms < 16 -> (((ls * (2 ^ ms)) % U16) + 1) % U16
        [] ms \in 16..31 -> 1

\* the results VL53L0X_decodeTimeout can give: for a shift count of 32 or
\* more the compiled code either uses the count modulo 32 (a shift
\* instruction of x86-64) or returns 1, every bit shifted out (a call folded
\* at compile time; a shift instruction that takes the whole count, as on
\* ARM); one build gives both, depending on how the call is compiled
VL53L0X_decodeTimeoutOutcomes(reg_val) ==
  LET ls == reg_val % 256
      ms == (reg_val \div 256) % 256
  IN  IF ms < 32 THEN { VL53L0X_decodeTimeout(reg_val) }
      ELSE { VL53L0X_decodeTimeout((ms % 32) * 256 + ls), 1 }

RECURSIVE EncodeLoop(_, _)
\* the while loop of VL53L0X_encodeTimeout
EncodeLoop(ls_byte, ms_byte) ==
  IF ls_byte >= 256 THEN EncodeLoop(ls_byte \div 2, ms_byte + 1)
  ELSE (ms_byte * 256 + (ls_byte % 256)) % U16

VL53L0X_encodeTimeoutNoDecrement(timeout_mclks) ==
  IF timeout_mclks > 0 THEN EncodeLoop(timeout_mclks, 0) ELSE 0

VL53L0X_encodeTimeout(timeout_mclks) ==
  IF timeout_mclks > 0 THEN EncodeLoop(timeout_mclks - 1, 0) ELSE 0


VL53L0X_timeoutMclksToMicrosecondsUnrounded(timeout_period_mclks, vcsel_period_pclks) ==
  LET macro_period_ns == calcMacroPeriod(vcsel_period_pclks)
  IN  Div32(MulAdd32(timeout_period_mclks, macro_period_ns, 0), 1000)

\* VL53L0X_timeoutMclksToMicroseconds(uint16_t, uint8_t) in uint32_t arithmetic
VL53L0X_timeoutMclksToMicroseconds(timeout_period_mclks, vcsel_period_pclks) ==
  LET macro_period_ns == calcMacroPeriod(vcsel_period_pclks)
  IN  Div32(MulAdd32(timeout_period_mclks, macro_period_ns, macro_period_ns \div 2), 1000)

\* VL53L0X_timeoutMicrosecondsToMclks(uint32_t, uint8_t) in uint32_t arithmetic
VL53L0X_timeoutMicrosecondsToMclksTruncating(timeout_period_us, vcsel_period_pclks) ==
  LET macro_period_ns == calcMacroPeriod(vcsel_period_pclks)
  IN  Div32(MulAdd32(timeout_period_us, 1000, 0), macro_period_ns)

VL53L0X_timeoutMicrosecondsToMclks(timeout_period_us, vcsel_period_pclks) ==
  LET macro_period_ns == calcMacroPeriod(vcsel_period_pclks)
  IN  Div32(MulAdd32(timeout_period_us, 1000, macro_period_ns \div 2), macro_period_ns)

(***************************************************************************)
(* The device register file and the handle.                                *)
(***************************************************************************)
RegNames ==
  { "SYSRANGE_START", "SYSTEM_SEQUENCE_CONFIG", "SYSTEM_INTERRUPT_CLEAR",
    "RESULT_INTERRUPT_STATUS", "MSRC_CONFIG_TIMEOUT_MACROP",
    "PRE_RANGE_CONFIG_VCSEL_PERIOD", "PRE_RANGE_CONFIG_TIMEOUT_MACROP_HI",
    "PRE_RANGE_CONFIG_VALID_PHASE_HIGH", "PRE_RANGE_CONFIG_VALID_PHASE_LOW",
    "FINAL_RANGE_CONFIG_VCSEL_PERIOD", "FINAL_RANGE_CONFIG_TIMEOUT_MACROP_HI",
    "FINAL_RANGE_CONFIG_VALID_PHASE_HIGH", "FINAL_RANGE_CONFIG_VALID_PHASE_LOW",
    "GLOBAL_CONFIG_VCSEL_WIDTH", "ALGO_PHASECAL_CONFIG_TIMEOUT",
    "ALGO_PHASECAL_LIM", "0xFF",
    "0x80", "0x00", "0x91", "0x88", "0x83", "0x81", "0x94", "0x92",
    "VHV_CONFIG_PAD_SCL_SDA__EXTSUP_HV", "MSRC_CONFIG_CONTROL",
    "FINAL_RANGE_CONFIG_MIN_COUNT_RATE_RTN_LIMIT",
    "GLOBAL_CONFIG_SPAD_ENABLES_REF_0", "DYNAMIC_SPAD_REF_EN_START_OFFSET",
    "DYNAMIC_SPAD_NUM_REQUESTED_REF_SPAD", "GLOBAL_CONFIG_REF_EN_START_SELECT",
    "SYSTEM_INTERRUPT_CONFIG_GPIO", "GPIO_HV_MUX_ACTIVE_HIGH",
    "OSC_CALIBRATE_VAL", "SYSTEM_INTERMEASUREMENT_PERIOD",
    "RESULT_RANGE_STATUS + 10", "I2C_SLAVE_DEVICE_ADDRESS" }

\* the slave address every register access helper puts on the bus: the
\* literal 0b0101001, whatever the handle holds
AddressDefault == 41
SlaveAddress(d) == AddressDefault

\* VL53L0X_writeReg / VL53L0X_writeReg16Bit / VL53L0X_writeReg32Bit: the
\* register the call names takes the value (one byte, 16 bits or four bytes)
WriteReg(r, reg, value) == [r EXCEPT ![reg] = value]

\* a run of writeReg calls, in program order: a register holds the value of
\* the last write to it
ApplyWrites(r, ws) ==
  [ n \in DOMAIN r |->
      LET at == { i \in 1..Len(ws) : ws[i][1] = n }
      IN  IF at = { } THEN r[n]
          ELSE ws[CHOOSE i \in at : \A j \in at : j <= i][2] ]

(***************************************************************************)
(* Sequence step model.                                                    *)
(***************************************************************************)
VL53L0X_getSequenceStepEnables(r) ==
  LET sequence_config == r["SYSTEM_SEQUENCE_CONFIG"]
  IN  [ tcc         |-> Bit(sequence_config, 4) = 1,
        dss         |-> Bit(sequence_config, 3) = 1,
        msrc        |-> Bit(sequence_config, 2) = 1,
        pre_range   |-> Bit(sequence_config, 6) = 1,
        final_range |-> Bit(sequence_config, 7) = 1 ]

\* VL53L0X_getVcselPulsePeriod: 255 for an unknown type
VL53L0X_getVcselPulsePeriod(r, type) ==
  IF type = "VcselPeriodPreRange"
    THEN decodeVcselPeriod(r["PRE_RANGE_CONFIG_VCSEL_PERIOD"])
  ELSE IF type = "VcselPeriodFinalRange"
    THEN decodeVcselPeriod(r["FINAL_RANGE_CONFIG_VCSEL_PERIOD"])
  ELSE 255

VL53L0X_getSequenceStepTimeoutsNoSubtract(r, enables) ==
  LET pre_pclks   == VL53L0X_getVcselPulsePeriod(r, "VcselPeriodPreRange")
      msrc_mclks  == r["MSRC_CONFIG_TIMEOUT_MACROP"] + 1
      pre_mclks   == VL53L0X_decodeTimeout(r["PRE_RANGE_CONFIG_TIMEOUT_MACROP_HI"])
      final_pclks == VL53L0X_getVcselPulsePeriod(r, "VcselPeriodFinalRange")
      final_mclks == VL53L0X_decodeTimeout(r["FINAL_RANGE_CONFIG_TIMEOUT_MACROP_HI"])
  IN  [ pre_range_vcsel_period_pclks   |-> pre_pclks,
        final_range_vcsel_period_pclks |-> final_pclks,
        msrc_dss_tcc_mclks |-> msrc_mclks,
        pre_range_mclks    |-> pre_mclks,
        final_range_mclks  |-> final_mclks,
        msrc_dss_tcc_us |-> VL53L0X_timeoutMclksToMicroseconds(msrc_mclks, pre_pclks),
        pre_range_us    |-> VL53L0X_timeoutMclksToMicroseconds(pre_mclks, pre_pclks),
        final_range_us  |-> VL53L0X_timeoutMclksToMicroseconds(final_mclks, final_pclks) ]

\* VL53L0X_getSequenceStepTimeouts; the MCLK fields are uint16_t, so the
\* subtraction of the pre-range MCLKs wraps modulo 2^16
VL53L0X_getSequenceStepTimeouts(r, enables) ==
  LET pre_pclks   == VL53L0X_getVcselPulsePeriod(r, "VcselPeriodPreRange")
      msrc_mclks  == r["MSRC_CONFIG_TIMEOUT_MACROP"] + 1
      pre_mclks   == VL53L0X_decodeTimeout(r["PRE_RANGE_CONFIG_TIMEOUT_MACROP_HI"])
      final_pclks == VL53L0X_getVcselPulsePeriod(r, "VcselPeriodFinalRange")
      final_raw   == VL53L0X_decodeTimeout(r["FINAL_RANGE_CONFIG_TIMEOUT_MACROP_HI"])
      final_mclks == IF enables.pre_range
                       THEN (final_raw - pre_mclks) % U16
                       ELSE final_raw
  IN  [ pre_range_vcsel_period_pclks   |-> pre_pclks,
        final_range_vcsel_period_pclks |-> final_pclks,
        msrc_dss_tcc_mclks |-> msrc_mclks,
        pre_range_mclks    |-> pre_mclks,
        final_range_mclks  |-> final_mclks,
        msrc_dss_tcc_us |-> VL53L0X_timeoutMclksToMicroseconds(msrc_mclks, pre_pclks),
        pre_range_us    |-> VL53L0X_timeoutMclksToMicroseconds(pre_mclks, pre_pclks),
        final_range_us  |-> VL53L0X_timeoutMclksToMicroseconds(final_mclks, final_pclks) ]

(***************************************************************************)
(* Timing budget allocator.                                                *)
(***************************************************************************)
MinTimingBudget    == 20000
SetStartOverhead   == 1320
GetStartOverhead   == 1910
EndOverhead        == 960
MsrcOverhead       == 660
TccOverhead        == 590
DssOverhead        == 690
PreRangeOverhead   == 660
FinalRangeOverhead == 550

BudgetBelowMinimumOffByOne(budget_us) == budget_us < MinTimingBudget - 1

\* the guard of line 868
BudgetBelowMinimum(budget_us) == budget_us < MinTimingBudget

\* the cost of the enabled steps before the final range, as both budget
\* functions add it up (tcc, then dss or else msrc, then pre_range)
StepCosts(enables, timeouts) ==
    (IF enables.tcc THEN timeouts.msrc_dss_tcc_us + TccOverhead ELSE 0)
  + (IF enables.dss THEN 2 * (timeouts.msrc_dss_tcc_us + DssOverhead)
     ELSE IF enables.msrc THEN timeouts.msrc_dss_tcc_us + MsrcOverhead
     ELSE 0)
  + (IF enables.pre_range THEN timeouts.pre_range_us + PreRangeOverhead ELSE 0)

SetUsedBudgetDssOnce(enables, timeouts) ==
    SetStartOverhead + EndOverhead
  + (IF enables.tcc THEN timeouts.msrc_dss_tcc_us + TccOverhead ELSE 0)
  + (IF enables.dss THEN timeouts.msrc_dss_tcc_us + DssOverhead
     ELSE IF enables.msrc THEN timeouts.msrc_dss_tcc_us + MsrcOverhead
     ELSE 0)
  + (IF enables.pre_range THEN timeouts.pre_range_us + PreRangeOverhead ELSE 0)
  + FinalRangeOverhead

\* used_budget_us of VL53L0X_setMeasurementTimingBudget at the feasibility
\* check (final range enabled)
SetUsedBudget(enables, timeouts) ==
  SetStartOverhead + EndOverhead + StepCosts(enables, timeouts) + FinalRangeOverhead

StoreBudgetAlways(final_range, cached, budget_us) == budget_us

\* dev->measurement_timing_budget_us after a successful set: the store of
\* line 931 sits inside the final_range branch
StoreBudget(final_range, cached, budget_us) ==
  IF final_range THEN budget_us ELSE cached

\* VL53L0X_setMeasurementTimingBudget: result, register writes, cached budget
VL53L0X_setMeasurementTimingBudget(r, cached, budget_us) ==
  IF BudgetBelowMinimum(budget_us)
    THEN [ ret |-> FALSE, writes |-> << >>, cached |-> cached ]
  ELSE
    LET enables  == VL53L0X_getSequenceStepEnables(r)
        timeouts == VL53L0X_getSequenceStepTimeouts(r, enables)
        used_budget_us == SetUsedBudget(enables, timeouts)
    IN  IF ~enables.final_range
          THEN [ ret |-> TRUE, writes |-> << >>,
                 cached |-> StoreBudget(FALSE, cached, budget_us) ]
        ELSE IF used_budget_us > budget_us
          THEN [ ret |-> FALSE, writes |-> << >>, cached |-> cached ]
        ELSE
          LET final_range_timeout_us == budget_us - used_budget_us
              mclks0 == VL53L0X_timeoutMicrosecondsToMclks(
                          final_range_timeout_us,
                          timeouts.final_range_vcsel_period_pclks) % U16
              final_range_timeout_mclks ==
                IF enables.pre_range
                  THEN (mclks0 + timeouts.pre_range_mclks) % U16
                  ELSE mclks0
          IN  [ ret |-> TRUE,
                writes |-> << << "FINAL_RANGE_CONFIG_TIMEOUT_MACROP_HI",
                                 VL53L0X_encodeTimeout(final_range_timeout_mclks) >> >>,
                cached |-> StoreBudget(TRUE, cached, budget_us) ]

GetBudgetSetOverhead(r) ==
  LET enables  == VL53L0X_getSequenceStepEnables(r)
      timeouts == VL53L0X_getSequenceStepTimeouts(r, enables)
  IN  SetStartOverhead + EndOverhead + StepCosts(enables, timeouts)
      + (IF enables.final_range
           THEN timeouts.final_range_us + FinalRangeOverhead ELSE 0)

\* VL53L0X_getMeasurementTimingBudget: the value returned and stored
VL53L0X_getMeasurementTimingBudget(r) ==
  LET enables  == VL53L0X_getSequenceStepEnables(r)
      timeouts == VL53L0X_getSequenceStepTimeouts(r, enables)
  IN  GetStartOverhead + EndOverhead + StepCosts(enables, timeouts)
      + (IF enables.final_range
           THEN timeouts.final_range_us + FinalRangeOverhead ELSE 0)

(***************************************************************************)
(* Pulse period controller.                                                *)
(***************************************************************************)
PreRangeValidPhaseHighLax(period_pclks) ==
  CASE period_pclks \in {12, 13} -> 24
    [] period_pclks = 14 -> 48
    [] period_pclks = 16 -> 64
    [] period_pclks = 18 -> 80
    [] OTHER -> -1

\* the switch of the pre-range branch: PRE_RANGE_CONFIG_VALID_PHASE_HIGH for
\* the period, -1 for the default (invalid period) case
PreRangeValidPhaseHigh(period_pclks) ==
  CASE period_pclks = 12 -> 24
    [] period_pclks = 14 -> 48
    [] period_pclks = 16 -> 64
    [] period_pclks = 18 -> 80
    [] OTHER -> -1

\* the switch of the final-range branch: the seven register writes for the
\* period, the empty run for the default (invalid period) case
FinalRangePhaseWrites(period_pclks) ==
  LET Run(high, width, timeout, lim) ==
        << << "FINAL_RANGE_CONFIG_VALID_PHASE_HIGH", high >>,
           << "FINAL_RANGE_CONFIG_VALID_PHASE_LOW", 8 >>,
           << "GLOBAL_CONFIG_VCSEL_WIDTH", width >>,
           << "ALGO_PHASECAL_CONFIG_TIMEOUT", timeout >>,
           << "0xFF", 1 >>,
           << "ALGO_PHASECAL_LIM", lim >>,
           << "0xFF", 0 >> >>
  IN  CASE period_pclks = 8  -> Run(16, 2, 12, 48)
        [] period_pclks = 10 -> Run(40, 3, 9, 32)
        [] period_pclks = 12 -> Run(56, 3, 8, 32)
        [] period_pclks = 14 -> Run(72, 3, 7, 32)
        [] OTHER -> << >>

\* MSRC_CONFIG_TIMEOUT_MACROP as line 1062 writes it through uint8_t
MsrcTimeoutRegUnclamped(new_msrc_timeout_mclks) ==
  (new_msrc_timeout_mclks - 1) % U8

MsrcTimeoutReg(new_msrc_timeout_mclks) ==
  IF new_msrc_timeout_mclks > 256 THEN 255
  ELSE (new_msrc_timeout_mclks - 1) % U8

\* VL53L0X_setVcselPulsePeriod up to the re-application of the budget:
\* whether the type and period were accepted, and the writes issued
VcselPeriodUpdate(r, type, period_pclks) ==
  LET vcsel_period_reg == encodeVcselPeriod(period_pclks)
      enables  == VL53L0X_getSequenceStepEnables(r)
      timeouts == VL53L0X_getSequenceStepTimeouts(r, enables)
  IN  IF type = "VcselPeriodPreRange" THEN
        IF PreRangeValidPhaseHigh(period_pclks) = -1
          THEN [ ok |-> FALSE, writes |-> << >> ]
        ELSE
          LET new_pre_range_timeout_mclks ==
                VL53L0X_timeoutMicrosecondsToMclks(timeouts.pre_range_us, period_pclks) % U16
              new_msrc_timeout_mclks ==
                VL53L0X_timeoutMicrosecondsToMclks(timeouts.msrc_dss_tcc_us, period_pclks) % U16
          IN  [ ok |-> TRUE,
                writes |->
                  << << "PRE_RANGE_CONFIG_VALID_PHASE_HIGH",
                        PreRangeValidPhaseHigh(period_pclks) >>,
                     << "PRE_RANGE_CONFIG_VALID_PHASE_LOW", 8 >>,
                     << "PRE_RANGE_CONFIG_VCSEL_PERIOD", vcsel_period_reg >>,
                     << "PRE_RANGE_CONFIG_TIMEOUT_MACROP_HI",
                        VL53L0X_encodeTimeout(new_pre_range_timeout_mclks) >>,
                     << "MSRC_CONFIG_TIMEOUT_MACROP",
                        MsrcTimeoutReg(new_msrc_timeout_mclks) >> >> ]
      ELSE IF type = "VcselPeriodFinalRange" THEN
        IF FinalRangePhaseWrites(period_pclks) = << >>
          THEN [ ok |-> FALSE, writes |-> << >> ]
        ELSE
          LET mclks0 ==
                VL53L0X_timeoutMicrosecondsToMclks(timeouts.final_range_us, period_pclks) % U16
              new_final_range_timeout_mclks ==
                IF enables.pre_range
                  THEN (mclks0 + timeouts.pre_range_mclks) % U16
                  ELSE mclks0
          IN  [ ok |-> TRUE,
                writes |->
                  FinalRangePhaseWrites(period_pclks) \o
                  << << "FINAL_RANGE_CONFIG_VCSEL_PERIOD", vcsel_period_reg >>,
                     << "FINAL_RANGE_CONFIG_TIMEOUT_MACROP_HI",
                        VL53L0X_encodeTimeout(new_final_range_timeout_mclks) >> >> ]
      ELSE [ ok |-> FALSE, writes |-> << >> ]

RestoreDefaultSequenceConfig(sequence_config) == 232

\* the value line 1155 writes back to SYSTEM_SEQUENCE_CONFIG
RestoreSequenceConfig(sequence_config) == sequence_config

\* VL53L0X_checkTimeoutExpired: the body returns 0
VL53L0X_checkTimeoutExpired == FALSE

(***************************************************************************)
(* Initialisation, reference calibration and ranging.                      *)
(***************************************************************************)
StopVariableRestoreZero(stop_variable) ==
  << << "0x80", 1 >>, << "0xFF", 1 >>, << "0x00", 0 >>,
     << "0x91", 0 >>,
     << "0x00", 1 >>, << "0xFF", 0 >>, << "0x80", 0 >> >>

\* the seven writes that open VL53L0X_startContinuous and
\* VL53L0X_readRangeSingleMillimeters
StopVariableRestore(stop_variable) ==
  << << "0x80", 1 >>, << "0xFF", 1 >>, << "0x00", 0 >>,
     << "0x91", stop_variable >>,
     << "0x00", 1 >>, << "0xFF", 0 >>, << "0x80", 0 >> >>

\* a uint32_t as the four bytes VL53L0X_writeReg32Bit sends
Bytes32(x) == << Byte(x, 3), Byte(x, 2), Byte(x, 1), Byte(x, 0) >>

InterMeasurementPeriodUnscaled(period_ms, osc_calibrate_val) == Bytes32(period_ms)

\* period_ms after lines 1199-1204, in uint32_t arithmetic
InterMeasurementPeriod(period_ms, osc_calibrate_val) ==
  IF osc_calibrate_val # 0
    THEN MulAdd32(period_ms, osc_calibrate_val, 0)
    ELSE Bytes32(period_ms)

\* the writes of VL53L0X_startContinuous
VL53L0X_startContinuous(stop_variable, period_ms, osc_calibrate_val) ==
  StopVariableRestore(stop_variable) \o
  (IF period_ms # 0
     THEN << << "SYSTEM_INTERMEASUREMENT_PERIOD",
                InterMeasurementPeriod(period_ms, osc_calibrate_val) >>,
             << "SYSRANGE_START", 4 >> >>
     ELSE << << "SYSRANGE_START", 2 >> >>)


VL53L0X_stopContinuousBankLeft ==
  << << "SYSRANGE_START", 1 >>,
     << "0xFF", 1 >>, << "0x00", 0 >>, << "0x91", 0 >>, << "0x00", 1 >> >>

\* the writes of VL53L0X_stopContinuous
VL53L0X_stopContinuous ==
  << << "SYSRANGE_START", 1 >>,
     << "0xFF", 1 >>, << "0x00", 0 >>, << "0x91", 0 >>, << "0x00", 1 >>,
     << "0xFF", 0 >> >>

VL53L0X_timeoutOccurredSetsFlag(d) ==
  [ ret |-> d.did_timeout, dev |-> [ d EXCEPT !.did_timeout = TRUE ] ]

\* VL53L0X_timeoutOccurred: the result and the handle it leaves
VL53L0X_timeoutOccurred(d) ==
  [ ret |-> d.did_timeout, dev |-> [ d EXCEPT !.did_timeout = FALSE ] ]

\* the two reference calibrations of VL53L0X_init: SYSTEM_SEQUENCE_CONFIG and
\* the byte given to VL53L0X_performSingleRefCalibration
RefCalibration(step) ==
  IF step = "vhv" THEN [ sequence_config |-> 1, vhv_init_byte |-> 64 ]
  ELSE [ sequence_config |-> 2, vhv_init_byte |-> 0 ]

\* lines 719-720 (727-728) up to the poll loop of line 1438
StartCalibration(step) ==
  << << "SYSTEM_SEQUENCE_CONFIG", RefCalibration(step).sequence_config >>,
     << "SYSRANGE_START", Or8(1, RefCalibration(step).vhv_init_byte, 0) >> >>

\* lines 1443-1445, after the poll loop
FinishCalibration ==
  << << "SYSTEM_INTERRUPT_CLEAR", 1 >>, << "SYSRANGE_START", 0 >> >>

\* VL53L0X_init from line 526 to the call of VL53L0X_getSpadInfo, for the
\* register file r it finds (the stop variable is read between the fourth
\* and the fifth write after the 2V8 switch)
DataInitWrites(r, io_2v8) ==
  (IF io_2v8
     THEN << << "VHV_CONFIG_PAD_SCL_SDA__EXTSUP_HV",
                Or8(r["VHV_CONFIG_PAD_SCL_SDA__EXTSUP_HV"], 1, 0) >> >>
     ELSE << >>) \o
  << << "0x88", 0 >>,
     << "0x80", 1 >>, << "0xFF", 1 >>, << "0x00", 0 >>,
     << "0x00", 1 >>, << "0xFF", 0 >>, << "0x80", 0 >>,
     << "MSRC_CONFIG_CONTROL", Or8(r["MSRC_CONFIG_CONTROL"], 18, 0) >>,
     << "FINAL_RANGE_CONFIG_MIN_COUNT_RATE_RTN_LIMIT", 32 >>,
     << "SYSTEM_SEQUENCE_CONFIG", 255 >> >>

\* VL53L0X_getSpadInfo up to its poll loop
SpadInfoBegin(r) ==
  << << "0x80", 1 >>, << "0xFF", 1 >>, << "0x00", 0 >>,
     << "0xFF", 6 >>,
     << "0x83", Or8(r["0x83"], 4, 0) >>,
     << "0xFF", 7 >>,
     << "0x81", 1 >>,
     << "0x80", 1 >>,
     << "0x94", 107 >>,
     << "0x83", 0 >> >>

\* VL53L0X_getSpadInfo after its poll loop; register 0x83 is read back after
\* the write of 1 to it
SpadInfoEnd ==
  << << "0x83", 1 >>,
     << "0x81", 0 >>,
     << "0xFF", 6 >>,
     << "0x83", AndNot8(1, 4, 0) >>,
     << "0xFF", 1 >>,
     << "0x00", 1 >>,
     << "0xFF", 0 >>,
     << "0x80", 0 >> >>

\* the loop of lines 577-589: the reference SPAD map it leaves.  When the
\* loop reaches bit i, spads_enabled is the number of set bits it has passed
\* from first_spad_to_enable on, held at spad_count once it gets there; bit i
\* is cleared when i is below first_spad_to_enable or spads_enabled has
\* reached spad_count, and is left as it is otherwise.
SpadLoop(ref_spad_map, first_spad_to_enable, spad_count) ==
  LET SpadBit(i) == Bit(ref_spad_map[(i \div 8) + 1], i % 8)
      SetBitsPassed(i) ==
        Cardinality({ j \in first_spad_to_enable..(i - 1) : SpadBit(j) = 1 })
      Kept(i) ==
        IF i < first_spad_to_enable \/ SetBitsPassed(i) >= spad_count
          THEN 0 ELSE SpadBit(i)
  IN  [ b \in 1..6 |->
          LET o == 8 * (b - 1)
          IN  Kept(o) + 2 * Kept(o + 1) + 4 * Kept(o + 2) + 8 * Kept(o + 3)
              + 16 * Kept(o + 4) + 32 * Kept(o + 5) + 64 * Kept(o + 6)
              + 128 * Kept(o + 7) ]

\* one byte written to address a of bank 0: the write to the register that
\* holds the address, as far as the driver names it (the register map of the
\* driver's header); a byte of a 16-bit register, of the 32-bit period or of
\* the SPAD map replaces that byte of the value held
ByteWrite(r, a, b) ==
  LET Single(n) == << << n, b >> >>
      High(n)   == << << n, b * 256 + (r[n] % 256) >> >>
      Low(n)    == << << n, (r[n] \div 256) * 256 + b >> >>
      Part(n, k) == << << n, [ r[n] EXCEPT ![k] = b ] >> >>
  IN  CASE a = 0 -> Single("SYSRANGE_START")
        [] a = 1 -> Single("SYSTEM_SEQUENCE_CONFIG")
        [] a \in 4..7 -> Part("SYSTEM_INTERMEASUREMENT_PERIOD", a - 3)
        [] a = 10 -> Single("SYSTEM_INTERRUPT_CONFIG_GPIO")
        [] a = 11 -> Single("SYSTEM_INTERRUPT_CLEAR")
        [] a = 19 -> Single("RESULT_INTERRUPT_STATUS")
        [] a = 30 -> High("RESULT_RANGE_STATUS + 10")
        [] a = 31 -> Low("RESULT_RANGE_STATUS + 10")
        [] a = 48 -> Single("ALGO_PHASECAL_CONFIG_TIMEOUT")
        [] a = 50 -> Single("GLOBAL_CONFIG_VCSEL_WIDTH")
        [] a = 68 -> High("FINAL_RANGE_CONFIG_MIN_COUNT_RATE_RTN_LIMIT")
        [] a = 69 -> Low("FINAL_RANGE_CONFIG_MIN_COUNT_RATE_RTN_LIMIT")
        [] a = 70 -> Single("MSRC_CONFIG_TIMEOUT_MACROP")
        [] a = 71 -> Single("FINAL_RANGE_CONFIG_VALID_PHASE_LOW")
        [] a = 72 -> Single("FINAL_RANGE_CONFIG_VALID_PHASE_HIGH")
        [] a = 80 -> Single("PRE_RANGE_CONFIG_VCSEL_PERIOD")
        [] a = 81 -> High("PRE_RANGE_CONFIG_TIMEOUT_MACROP_HI")
        [] a = 82 -> Low("PRE_RANGE_CONFIG_TIMEOUT_MACROP_HI")
        [] a = 86 -> Single("PRE_RANGE_CONFIG_VALID_PHASE_LOW")
        [] a = 87 -> Single("PRE_RANGE_CONFIG_VALID_PHASE_HIGH")
        [] a = 96 -> Single("MSRC_CONFIG_CONTROL")
        [] a = 112 -> Single("FINAL_RANGE_CONFIG_VCSEL_PERIOD")
        [] a = 113 -> High("FINAL_RANGE_CONFIG_TIMEOUT_MACROP_HI")
        [] a = 114 -> Low("FINAL_RANGE_CONFIG_TIMEOUT_MACROP_HI")
        [] a = 128 -> Single("0x80")
        [] a = 132 -> Single("GPIO_HV_MUX_ACTIVE_HIGH")
        [] a = 136 -> Single("0x88")
        [] a = 137 -> Single("VHV_CONFIG_PAD_SCL_SDA__EXTSUP_HV")
        [] a = 138 -> Single("I2C_SLAVE_DEVICE_ADDRESS")
        [] a \in 176..181 -> Part("GLOBAL_CONFIG_SPAD_ENABLES_REF_0", a - 175)
        [] a = 182 -> Single("GLOBAL_CONFIG_REF_EN_START_SELECT")
        [] a = 248 -> High("OSC_CALIBRATE_VAL")
        [] a = 249 -> Low("OSC_CALIBRATE_VAL")
        [] a = 255 -> Single("0xFF")
        [] OTHER -> << >>

RECURSIVE BytesFrom(_, _, _)
\* the bytes of one bus transaction after its first: each goes to the
\* address after the one before
BytesFrom(r, a, bytes) ==
  IF bytes = << >> THEN << >>
  ELSE LET w == ByteWrite(r, a, bytes[1])
       IN  w \o BytesFrom(ApplyWrites(r, w), (a + 1) % 256, Tail(bytes))

\* VL53L0X_writeMulti (lines 811-815) in bank 0: the register index goes out
\* as a transaction of its own, which writes nothing, and the bytes of src as
\* a second one, whose first byte the device takes as the register index and
\* whose other bytes it stores from there on; the register named by the call
\* is not written
VL53L0X_writeMulti(r, src) == BytesFrom(r, src[1], Tail(src))

\* VL53L0X_set_reference_spads (lines 564-591) for the byte tmp read from
\* register 0x92
ReferenceSpadWrites(r, tmp) ==
  LET spad_count == tmp % 128
      spad_type_is_aperture == Bit(tmp, 7) = 1
      first_spad_to_enable == IF spad_type_is_aperture THEN 12 ELSE 0
      w == << << "0xFF", 1 >>,
              << "DYNAMIC_SPAD_REF_EN_START_OFFSET", 0 >>,
              << "DYNAMIC_SPAD_NUM_REQUESTED_REF_SPAD", 44 >>,
              << "0xFF", 0 >>,
              << "GLOBAL_CONFIG_REF_EN_START_SELECT", 180 >> >>
  IN  w \o VL53L0X_writeMulti(
             ApplyWrites(r, w),
             SpadLoop(r["GLOBAL_CONFIG_SPAD_ENABLES_REF_0"],
                      first_spad_to_enable, spad_count))

\* VL53L0X_load_tuning_settings (lines 598-690): the writes to the bank
\* select and to registers 0x00 and 0x80, and the writes that land on a
\* register the driver names (the addresses 0x50, 0x51/0x52, 0x56, 0x57,
\* 0x46, 0x60, 0x70, 0x71/0x72, 0x47, 0x48, 0x44/0x45, 0x32, 0x30 and 0x01 of
\* bank 0 and 0x30, 0x4E of bank 1 in the device's register map); a 16-bit
\* register appears once, when its low byte is written
TuningWrites ==
  << << "0xFF", 1 >>, << "0x00", 0 >>,
     << "0xFF", 0 >>, << "0xFF", 1 >>,
     << "DYNAMIC_SPAD_NUM_REQUESTED_REF_SPAD", 44 >>, << "ALGO_PHASECAL_LIM", 32 >>,
     << "0xFF", 0 >>, << "ALGO_PHASECAL_CONFIG_TIMEOUT", 9 >>,
     << "GLOBAL_CONFIG_VCSEL_WIDTH", 3 >>, << "MSRC_CONFIG_TIMEOUT_MACROP", 37 >>,
     << "MSRC_CONFIG_CONTROL", 0 >>, << "PRE_RANGE_CONFIG_VCSEL_PERIOD", 6 >>,
     << "PRE_RANGE_CONFIG_TIMEOUT_MACROP_HI", 150 >>, << "PRE_RANGE_CONFIG_VALID_PHASE_LOW", 8 >>,
     << "PRE_RANGE_CONFIG_VALID_PHASE_HIGH", 48 >>, << "0xFF", 1 >>,
     << "0xFF", 0 >>, << "0xFF", 1 >>,
     << "0xFF", 0 >>, << "0xFF", 1 >>,
     << "0xFF", 0 >>, << "FINAL_RANGE_CONFIG_MIN_COUNT_RATE_RTN_LIMIT", 32 >>,
     << "FINAL_RANGE_CONFIG_VALID_PHASE_LOW", 8 >>, << "FINAL_RANGE_CONFIG_VALID_PHASE_HIGH", 40 >>,
     << "FINAL_RANGE_CONFIG_VCSEL_PERIOD", 4 >>, << "FINAL_RANGE_CONFIG_TIMEOUT_MACROP_HI", 510 >>,
     << "0xFF", 1 >>, << "0xFF", 0 >>,
     << "0x80", 1 >>, << "SYSTEM_SEQUENCE_CONFIG", 248 >>,
     << "0xFF", 1 >>, << "0x00", 1 >>,
     << "0xFF", 0 >>, << "0x80", 0 >> >>

\* lines 695-697
GpioConfigWrites(r) ==
  << << "SYSTEM_INTERRUPT_CONFIG_GPIO", 4 >>,
     << "GPIO_HV_MUX_ACTIVE_HIGH", AndNot8(r["GPIO_HV_MUX_ACTIVE_HIGH"], 16, 0) >>,
     << "SYSTEM_INTERRUPT_CLEAR", 1 >> >>

StaticInitReapplyLast(r, tmp) ==
  LET w1 == ReferenceSpadWrites(r, tmp) \o TuningWrites
      r1 == ApplyWrites(r, w1)
      w2 == GpioConfigWrites(r1)
      r2 == ApplyWrites(r1, w2)
      budget_us == VL53L0X_getMeasurementTimingBudget(r2)
      w3 == << << "SYSTEM_SEQUENCE_CONFIG", 232 >> >>
      r3 == ApplyWrites(r2, w3)
      res == VL53L0X_setMeasurementTimingBudget(r3, budget_us, budget_us)
  IN  [ writes |-> w1 \o w2 \o w3 \o StartCalibration("vhv") \o res.writes,
        cached |-> res.cached,
        budget_ok |-> res.ret ]

\* VL53L0X_init from the return of VL53L0X_getSpadInfo to the poll loop of
\* the VHV calibration: the writes and the cached budget
StaticInit(r, tmp) ==
  LET w1 == ReferenceSpadWrites(r, tmp) \o TuningWrites
      r1 == ApplyWrites(r, w1)
      w2 == GpioConfigWrites(r1)
      r2 == ApplyWrites(r1, w2)
      budget_us == VL53L0X_getMeasurementTimingBudget(r2)
      w3 == << << "SYSTEM_SEQUENCE_CONFIG", 232 >> >>
      r3 == ApplyWrites(r2, w3)
      res == VL53L0X_setMeasurementTimingBudget(r3, budget_us, budget_us)
  IN  [ writes |-> w1 \o w2 \o w3 \o res.writes \o StartCalibration("vhv"),
        cached |-> res.cached,
        budget_ok |-> res.ret ]

(***************************************************************************)
(* Initial states: the device and the handle as VL53L0X_init leaves them,  *)
(* and the device after the caller has rewritten the sequence              *)
(* configuration or a timeout with VL53L0X_writeReg / VL53L0X_writeReg16Bit.*)
(***************************************************************************)
\* << SYSTEM_SEQUENCE_CONFIG, MSRC_CONFIG_TIMEOUT_MACROP,
\*    PRE_RANGE_CONFIG_TIMEOUT_MACROP_HI, FINAL_RANGE_CONFIG_TIMEOUT_MACROP_HI >>
DeviceStates ==
  { << 232, 37, 150, 660 >>,     \* as VL53L0X_init leaves them
    << 255, 37, 150, 660 >>,     \* every step enabled
    << 255, 255, 150, 660 >>,    \* every step, longest MSRC/DSS/TCC timeout
    << 255, 37, 767, 1279 >>,    \* every step, timeouts with an exponent
    << 104, 37, 150, 660 >>,     \* final range disabled
    << 148, 255, 150, 660 >>,    \* tcc, msrc, final range; no pre-range
    << 232, 37, 150, 80 >>,      \* final-range timeout below the pre-range one
    << 255, 255, 767, 660 >>,    \* every step, long timeouts
    << 255, 37, 2288, 2303 >> }  \* every step, timeouts near the 16-bit limit
\* dev->measurement_timing_budget_us: of a handle VL53L0X_init has not yet
\* filled, and as VL53L0X_init leaves it (line 715)
CachedBudgets   == { 0, 33971 }
BudgetInputs    == { 19999, 20000, 33000, 500000, 2600000, 4400000 }
PeriodTypes     == { "VcselPeriodPreRange", "VcselPeriodFinalRange", "VcselPeriodOther" }
PeriodRequests  ==
  ({ "VcselPeriodPreRange" } \X { 12, 13, 14, 16, 18 }) \cup
  ({ "VcselPeriodFinalRange" } \X { 8, 10, 12, 14, 16 }) \cup
  ({ "VcselPeriodOther" } \X { 12 })
InterruptStatus == { 0, 1 }
\* what the device holds in register 0x91 and in its reference SPAD map
StopVariableOfDevice == 60
GoodSpadMap == << 255, 255, 255, 255, 255, 255 >>

\* the registers at the return of VL53L0X_init (line 740) for a handle with
\* io_2v8 set and a device that reports five non-aperture reference SPADs:
\* a register the driver reads from the device holds the value last read
TunedRegs ==
  [ n \in RegNames |->
      CASE n = "SYSTEM_SEQUENCE_CONFIG" -> 232
        [] n = "SYSTEM_INTERRUPT_CLEAR" -> 1
        [] n = "RESULT_INTERRUPT_STATUS" -> 1
        [] n = "0x00" -> 1
        [] n = "0x83" -> 1
        [] n = "0x92" -> 5
        [] n = "0x94" -> 107
        [] n = "VHV_CONFIG_PAD_SCL_SDA__EXTSUP_HV" -> 1
        [] n = "MSRC_CONFIG_TIMEOUT_MACROP" -> 37
        [] n = "PRE_RANGE_CONFIG_VCSEL_PERIOD" -> 6
        [] n = "PRE_RANGE_CONFIG_TIMEOUT_MACROP_HI" -> 150
        [] n = "PRE_RANGE_CONFIG_VALID_PHASE_HIGH" -> 48
        [] n = "PRE_RANGE_CONFIG_VALID_PHASE_LOW" -> 8
        [] n = "FINAL_RANGE_CONFIG_VCSEL_PERIOD" -> 4
        [] n = "FINAL_RANGE_CONFIG_TIMEOUT_MACROP_HI" -> 660
        [] n = "FINAL_RANGE_CONFIG_VALID_PHASE_HIGH" -> 40
        [] n = "FINAL_RANGE_CONFIG_VALID_PHASE_LOW" -> 8
        [] n = "GLOBAL_CONFIG_VCSEL_WIDTH" -> 3
        [] n = "ALGO_PHASECAL_CONFIG_TIMEOUT" -> 9
        [] n = "ALGO_PHASECAL_LIM" -> 32
        [] n = "FINAL_RANGE_CONFIG_MIN_COUNT_RATE_RTN_LIMIT" -> 32
        [] n = "DYNAMIC_SPAD_NUM_REQUESTED_REF_SPAD" -> 44
        [] n = "GLOBAL_CONFIG_REF_EN_START_SELECT" -> 180
        [] n = "SYSTEM_INTERRUPT_CONFIG_GPIO" -> 4
        [] n = "0x91" -> StopVariableOfDevice
        [] n = "GLOBAL_CONFIG_SPAD_ENABLES_REF_0" -> GoodSpadMap
        [] n = "SYSTEM_INTERMEASUREMENT_PERIOD" -> << 0, 0, 0, 0 >>
        [] n = "I2C_SLAVE_DEVICE_ADDRESS" -> AddressDefault
        [] OTHER -> 0 ]

NoCall == [ op |-> "none", type |-> "none", period |-> 0, budget |-> 0,
            new_addr |-> 0, slave |-> 0 ]
NoFrame == [ caller |-> "none", step |-> "none", sequence_config |-> 0,
             budget_ok |-> FALSE ]

InitMain ==
  /\ \E ds \in DeviceStates :
       regs = [ TunedRegs EXCEPT !["SYSTEM_SEQUENCE_CONFIG"] = ds[1],
                                 !["MSRC_CONFIG_TIMEOUT_MACROP"] = ds[2],
                                 !["PRE_RANGE_CONFIG_TIMEOUT_MACROP_HI"] = ds[3],
                                 !["FINAL_RANGE_CONFIG_TIMEOUT_MACROP_HI"] = ds[4] ]
  /\ \E b \in CachedBudgets :
       dev = [ measurement_timing_budget_us |-> b,
               stop_variable |-> IF b = 0 THEN 0 ELSE StopVariableOfDevice,
               did_timeout |-> FALSE,
               io_2v8 |-> TRUE,
               address |-> AddressDefault ]
  /\ pc = "idle"
  /\ answers = TRUE
  /\ frame = NoFrame
  /\ call = NoCall
  /\ ret = FALSE
  /\ val = 0
  /\ writes = << >>
  /\ regs0 = regs
  /\ dev0 = dev
  /\ calls = 0

CodecOff ==
  /\ cin = 0
  /\ cenc = 0
  /\ cdec = 0
  /\ cper = 0
  /\ cstage = "off"

Init == InitMain /\ CodecOff

(***************************************************************************)
(* Public calls.                                                           *)
(***************************************************************************)
Enter(op, type, period, budget) ==
  /\ pc = "idle"
  /\ calls < MaxCalls
  /\ calls' = calls + 1
  /\ call' = [ op |-> op, type |-> type, period |-> period, budget |-> budget,
                new_addr |-> 0, slave |-> SlaveAddress(dev) ]
  /\ regs0' = regs
  /\ dev0' = dev
  /\ UNCHANGED codecVars

\* the budgets a caller asks for: fixed ones, the least feasible one (the
\* fixed overheads plus the current costs of the enabled steps before the
\* final range), and that sum plus the current final-range timeout
RequestedBudgets(r) ==
  LET enables  == VL53L0X_getSequenceStepEnables(r)
      timeouts == VL53L0X_getSequenceStepTimeouts(r, enables)
      used     == SetUsedBudget(enables, timeouts)
  IN  BudgetInputs \cup { used, used + timeouts.final_range_us }

SetMeasurementTimingBudget ==
  \E budget_us \in RequestedBudgets(regs) :
    LET res == VL53L0X_setMeasurementTimingBudget(
                 regs, dev.measurement_timing_budget_us, budget_us)
    IN  /\ Enter("setMeasurementTimingBudget", "none", 0, budget_us)
        /\ regs' = ApplyWrites(regs, res.writes)
        /\ dev' = [ dev EXCEPT !.measurement_timing_budget_us = res.cached ]
        /\ writes' = res.writes
        /\ ret' = res.ret
        /\ UNCHANGED << pc, answers, frame, val >>

GetMeasurementTimingBudget ==
  LET budget_us == VL53L0X_getMeasurementTimingBudget(regs)
  IN  /\ Enter("getMeasurementTimingBudget", "none", 0, 0)
      /\ dev' = [ dev EXCEPT !.measurement_timing_budget_us = budget_us ]
      /\ val' = budget_us
      /\ writes' = << >>
      /\ UNCHANGED << regs, pc, answers, frame, ret >>

GetVcselPulsePeriod ==
  \E type \in PeriodTypes :
    /\ Enter("getVcselPulsePeriod", type, 0, 0)
    /\ val' = VL53L0X_getVcselPulsePeriod(regs, type)
    /\ writes' = << >>
    /\ UNCHANGED << regs, dev, pc, answers, frame, ret >>

\* VL53L0X_setVcselPulsePeriod from entry to the poll loop of the phase
\* calibration (or to its early return)
SetVcselPulsePeriod ==
  \E req \in PeriodRequests :
    LET type == req[1]
        period_pclks == req[2]
        upd == VcselPeriodUpdate(regs, type, period_pclks)
        r1  == ApplyWrites(regs, upd.writes)
        res == VL53L0X_setMeasurementTimingBudget(
                 r1, dev.measurement_timing_budget_us,
                 dev.measurement_timing_budget_us)
        r2  == ApplyWrites(r1, res.writes)
        sequence_config == r2["SYSTEM_SEQUENCE_CONFIG"]
        start == << << "SYSTEM_SEQUENCE_CONFIG", 2 >>,
                    << "SYSRANGE_START", 1 >> >>
    IN  /\ Enter("setVcselPulsePeriod", type, period_pclks, 0)
        /\ IF ~upd.ok
             THEN /\ ret' = FALSE
                  /\ writes' = << >>
                  /\ UNCHANGED << regs, dev, pc, answers, frame, val >>
             ELSE /\ regs' = ApplyWrites(r2, start)
                  /\ dev' = [ dev EXCEPT !.measurement_timing_budget_us = res.cached ]
                  /\ writes' = upd.writes \o res.writes \o start
                  /\ frame' = [ caller |-> "setVcselPulsePeriod",
                                step |-> "phase",
                                sequence_config |-> sequence_config,
                                budget_ok |-> res.ret ]
                  /\ pc' = "calib"
                  /\ answers' \in BOOLEAN
                  /\ UNCHANGED << ret, val >>

\* one turn of the poll loop of VL53L0X_performSingleRefCalibration with
\* the device answering `status`, and, when the loop ends, the rest of the
\* calibration and of the calling function: VL53L0X_setVcselPulsePeriod
\* ignores the result and restores the sequence configuration, a call of
\* VL53L0X_performSingleRefCalibration on its own returns, VL53L0X_init
\* returns false on a failure, starts the phase calibration after the VHV
\* calibration and restores 0xE8 after the phase calibration
CalibrationPoll ==
  \E status \in InterruptStatus :
    /\ pc = "calib"
    /\ (status % 8 # 0) => answers
    /\ LET polled == WriteReg(regs, "RESULT_INTERRUPT_STATUS", status)
           ready  == status % 8 # 0
           finish == IF ready THEN FinishCalibration ELSE << >>
       IN  IF ~ready /\ ~VL53L0X_checkTimeoutExpired
             THEN /\ regs' = polled
                  /\ UNCHANGED << dev, pc, answers, frame, ret, val, writes >>
           ELSE IF frame.caller = "setVcselPulsePeriod"
             THEN LET done == finish \o
                              << << "SYSTEM_SEQUENCE_CONFIG",
                                    RestoreSequenceConfig(frame.sequence_config) >> >>
                  IN  /\ regs' = ApplyWrites(polled, done)
                      /\ writes' = writes \o done
                      /\ ret' = TRUE
                      /\ pc' = "idle"
                      /\ answers' = TRUE
                      /\ UNCHANGED << dev, frame, val >>
           ELSE IF frame.caller = "performSingleRefCalibration"
             THEN /\ regs' = ApplyWrites(polled, finish)
                  /\ writes' = writes \o finish
                  /\ ret' = ready
                  /\ pc' = "idle"
                  /\ answers' = TRUE
                  /\ UNCHANGED << dev, frame, val >>
           ELSE IF ready /\ frame.step = "vhv"
             THEN LET done == finish \o StartCalibration("phase")
                  IN  /\ regs' = ApplyWrites(polled, done)
                      /\ writes' = writes \o done
                      /\ frame' = [ frame EXCEPT !.step = "phase" ]
                      /\ answers' \in BOOLEAN
                      /\ UNCHANGED << dev, pc, ret, val >>
           ELSE LET done == finish \o
                            (IF ready
                               THEN << << "SYSTEM_SEQUENCE_CONFIG", 232 >> >>
                               ELSE << >>)
                IN  /\ regs' = ApplyWrites(polled, done)
                    /\ writes' = writes \o done
                    /\ ret' = ready
                    /\ pc' = "idle"
                    /\ answers' = TRUE
                    /\ UNCHANGED << dev, frame, val >>
    /\ UNCHANGED << call, regs0, dev0, calls >>
    /\ UNCHANGED codecVars

Next ==
  \/ SetMeasurementTimingBudget
  \/ GetMeasurementTimingBudget
  \/ GetVcselPulsePeriod
  \/ SetVcselPulsePeriod
  \/ CalibrationPoll

Spec == Init /\ [][Next]_vars

(***************************************************************************)
(* The whole driver: initialisation and ranging beside the calls above.    *)
(***************************************************************************)
SpadStatus       == { 0, 1 }          \* register 0x83 in the poll loop
SpadInfos        == { 5, 131 }        \* register 0x92: count and type
PeriodsMs        == { 0, 100, 70000 }
OscCalibrateVals == { 0, 3020, 65535 }
RangeReadings    == { 120, 65535 }
StartBit         == { 0, 1 }          \* SYSRANGE_START in the poll loop

\* VL53L0X_init from entry to the poll loop of VL53L0X_getSpadInfo
InitDevice ==
  LET w1 == DataInitWrites(regs, dev.io_2v8)
      r1 == ApplyWrites(regs, w1)
      w2 == SpadInfoBegin(r1)
  IN  /\ Enter("init", "none", 0, 0)
      /\ regs' = ApplyWrites(r1, w2)
      /\ dev' = [ dev EXCEPT !.stop_variable = regs["0x91"] ]
      /\ writes' = w1 \o w2
      /\ frame' = [ NoFrame EXCEPT !.caller = "init", !.step = "spad" ]
      /\ pc' = "spad"
      /\ answers' \in BOOLEAN
      /\ UNCHANGED << ret, val >>

\* one turn of the poll loop of VL53L0X_getSpadInfo with the device
\* answering `status`, and, when the loop ends, the rest of
\* VL53L0X_getSpadInfo (val is the byte read from register 0x92: the count
\* in its low seven bits, the type in bit 7) and, inside VL53L0X_init,
\* VL53L0X_init up to the poll loop of the VHV calibration
SpadPoll ==
  \E status \in SpadStatus, tmp \in SpadInfos :
    /\ pc = "spad"
    /\ (status # 0) => answers
    /\ LET polled == WriteReg(regs, "0x83", status)
       IN  IF status = 0
             THEN IF VL53L0X_checkTimeoutExpired
                    THEN /\ regs' = polled
                         /\ ret' = FALSE
                         /\ pc' = "idle"
                         /\ answers' = TRUE
                         /\ UNCHANGED << dev, frame, val, writes >>
                    ELSE /\ regs' = polled
                         /\ UNCHANGED << dev, pc, answers, frame, ret, val, writes >>
             ELSE IF frame.caller = "getSpadInfo"
               THEN /\ regs' = ApplyWrites(WriteReg(polled, "0x92", tmp), SpadInfoEnd)
                    /\ writes' = writes \o SpadInfoEnd
                    /\ ret' = TRUE
                    /\ val' = tmp
                    /\ pc' = "idle"
                    /\ answers' = TRUE
                    /\ UNCHANGED << dev, frame >>
             ELSE LET r1 == ApplyWrites(WriteReg(polled, "0x92", tmp), SpadInfoEnd)
                      st == StaticInit(r1, tmp)
                  IN  /\ regs' = ApplyWrites(r1, st.writes)
                      /\ dev' = [ dev EXCEPT !.measurement_timing_budget_us = st.cached ]
                      /\ writes' = writes \o SpadInfoEnd \o st.writes
                      /\ frame' = [ frame EXCEPT !.step = "vhv",
                                                 !.budget_ok = st.budget_ok ]
                      /\ pc' = "calib"
                      /\ answers' \in BOOLEAN
                      /\ UNCHANGED << ret, val >>
    /\ UNCHANGED << call, regs0, dev0, calls >>
    /\ UNCHANGED codecVars

StartContinuous ==
  \E period_ms \in PeriodsMs, osc_calibrate_val \in OscCalibrateVals :
    LET w == VL53L0X_startContinuous(dev.stop_variable, period_ms, osc_calibrate_val)
    IN  /\ Enter("startContinuous", "none", period_ms, 0)
        /\ regs' = ApplyWrites(
                     IF period_ms # 0
                       THEN WriteReg(regs, "OSC_CALIBRATE_VAL", osc_calibrate_val)
                       ELSE regs, w)
        /\ writes' = w
        /\ UNCHANGED << dev, pc, answers, frame, ret, val >>

StopContinuous ==
  /\ Enter("stopContinuous", "none", 0, 0)
  /\ regs' = ApplyWrites(regs, VL53L0X_stopContinuous)
  /\ writes' = VL53L0X_stopContinuous
  /\ UNCHANGED << dev, pc, answers, frame, ret, val >>

\* VL53L0X_readRangeContinuousMillimeters with the device giving `range`:
\* the register file it leaves
ReadRange(r, range) ==
  WriteReg(WriteReg(r, "RESULT_RANGE_STATUS + 10", range),
           "SYSTEM_INTERRUPT_CLEAR", 1)

ReadRangeContinuousMillimeters ==
  \E range \in RangeReadings :
    /\ Enter("readRangeContinuousMillimeters", "none", 0, 0)
    /\ regs' = ReadRange(regs, range)
    /\ writes' = << << "SYSTEM_INTERRUPT_CLEAR", 1 >> >>
    /\ val' = range
    /\ UNCHANGED << dev, pc, answers, frame, ret >>

\* VL53L0X_readRangeSingleMillimeters from entry to its poll loop
ReadRangeSingleMillimeters ==
  LET w == StopVariableRestore(dev.stop_variable) \o << << "SYSRANGE_START", 1 >> >>
  IN  /\ Enter("readRangeSingleMillimeters", "none", 0, 0)
      /\ regs' = ApplyWrites(regs, w)
      /\ writes' = w
      /\ frame' = [ NoFrame EXCEPT !.caller = "readRangeSingleMillimeters" ]
      /\ pc' = "range"
      /\ answers' \in BOOLEAN
      /\ UNCHANGED << dev, ret, val >>

\* one turn of the poll loop of VL53L0X_readRangeSingleMillimeters with the
\* device answering `start` for SYSRANGE_START, and, when the loop ends, the
\* read of the range
RangePoll ==
  \E start \in StartBit, range \in RangeReadings :
    /\ pc = "range"
    /\ (start % 2 = 0) => answers
    /\ LET polled == WriteReg(regs, "SYSRANGE_START", start)
       IN  IF start % 2 = 1
             THEN IF VL53L0X_checkTimeoutExpired
                    THEN /\ regs' = polled
                         /\ dev' = [ dev EXCEPT !.did_timeout = TRUE ]
                         /\ val' = 65535
                         /\ pc' = "idle"
                         /\ answers' = TRUE
                         /\ UNCHANGED << frame, ret, writes >>
                    ELSE /\ regs' = polled
                         /\ UNCHANGED << dev, pc, answers, frame, ret, val, writes >>
             ELSE /\ regs' = ReadRange(polled, range)
                  /\ writes' = writes \o << << "SYSTEM_INTERRUPT_CLEAR", 1 >> >>
                  /\ val' = range
                  /\ pc' = "idle"
                  /\ answers' = TRUE
                  /\ UNCHANGED << dev, frame, ret >>
    /\ UNCHANGED << call, regs0, dev0, calls >>
    /\ UNCHANGED codecVars

TimeoutOccurred ==
  LET res == VL53L0X_timeoutOccurred(dev)
  IN  /\ Enter("timeoutOccurred", "none", 0, 0)
      /\ dev' = res.dev
      /\ ret' = res.ret
      /\ writes' = << >>
      /\ UNCHANGED << regs, pc, answers, frame, val >>

(***************************************************************************)
(* The slave address.                                                      *)
(***************************************************************************)
\* the uint8_t values given to VL53L0X_setAddress: the default, other 7-bit
\* addresses, and values with bit 7 set
AddressInputs == { 41, 48, 82, 127, 176, 255 }

\* VL53L0X_setAddress: the write and the handle it leaves
VL53L0X_setAddress(d, new_addr) ==
  [ writes |-> << << "I2C_SLAVE_DEVICE_ADDRESS", new_addr % 128 >> >>,
    dev |-> [ d EXCEPT !.address = new_addr ] ]

SetAddress ==
  \E new_addr \in AddressInputs :
    LET res == VL53L0X_setAddress(dev, new_addr)
    IN  /\ pc = "idle"
        /\ calls < MaxCalls
        /\ calls' = calls + 1
        /\ call' = [ op |-> "setAddress", type |-> "none", period |-> 0,
                     budget |-> 0, new_addr |-> new_addr,
                     slave |-> SlaveAddress(dev) ]
        /\ regs0' = regs
        /\ dev0' = dev
        /\ regs' = ApplyWrites(regs, res.writes)
        /\ dev' = res.dev
        /\ writes' = res.writes
        /\ UNCHANGED << pc, answers, frame, ret, val >>
        /\ UNCHANGED codecVars

(***************************************************************************)
(* The register helpers and the steps of VL53L0X_init, called on their     *)
(* own, with the device in bank 0.                                         *)
(***************************************************************************)
WriteRegInputs      == { << "SYSTEM_SEQUENCE_CONFIG", 255 >>,
                         << "I2C_SLAVE_DEVICE_ADDRESS", 48 >> }
WriteReg16BitInputs == { << "FINAL_RANGE_CONFIG_TIMEOUT_MACROP_HI", 1279 >> }
WriteReg32BitInputs == { << "SYSTEM_INTERMEASUREMENT_PERIOD", 16909060 >> }
\* the bytes src of VL53L0X_writeMulti (the register it is given has no
\* effect on what is written)
WriteMultiInputs    == { << 0, 0, 0, 0, 0, 0 >>, << 31, 0, 0, 0, 0, 0 >> }
VhvInitBytes        == { 0, 64 }

CallWriteReg ==
  \E w \in WriteRegInputs :
    /\ Enter("writeReg", "none", 0, 0)
    /\ regs' = WriteReg(regs, w[1], w[2] % 256)
    /\ writes' = << << w[1], w[2] % 256 >> >>
    /\ UNCHANGED << dev, pc, answers, frame, ret, val >>

CallWriteReg16Bit ==
  \E w \in WriteReg16BitInputs :
    /\ Enter("writeReg16Bit", "none", 0, 0)
    /\ regs' = WriteReg(regs, w[1], w[2] % U16)
    /\ writes' = << << w[1], w[2] % U16 >> >>
    /\ UNCHANGED << dev, pc, answers, frame, ret, val >>

CallWriteReg32Bit ==
  \E w \in WriteReg32BitInputs :
    /\ Enter("writeReg32Bit", "none", 0, 0)
    /\ regs' = WriteReg(regs, w[1], Bytes32(w[2]))
    /\ writes' = << << w[1], Bytes32(w[2]) >> >>
    /\ UNCHANGED << dev, pc, answers, frame, ret, val >>

CallWriteMulti ==
  \E src \in WriteMultiInputs :
    LET w == VL53L0X_writeMulti(regs, src)
    IN  /\ Enter("writeMulti", "none", 0, 0)
        /\ regs' = ApplyWrites(regs, w)
        /\ writes' = w
        /\ UNCHANGED << dev, pc, answers, frame, ret, val >>

\* VL53L0X_setSignalRateLimit: (1 << 7) / 4 to the limit register, true
SetSignalRateLimit ==
  LET w == << << "FINAL_RANGE_CONFIG_MIN_COUNT_RATE_RTN_LIMIT", 32 >> >>
  IN  /\ Enter("setSignalRateLimit", "none", 0, 0)
      /\ regs' = ApplyWrites(regs, w)
      /\ writes' = w
      /\ ret' = TRUE
      /\ UNCHANGED << dev, pc, answers, frame, val >>

\* VL53L0X_getSpadInfo, called on its own, up to its poll loop
GetSpadInfo ==
  LET w == SpadInfoBegin(regs)
  IN  /\ Enter("getSpadInfo", "none", 0, 0)
      /\ regs' = ApplyWrites(regs, w)
      /\ writes' = w
      /\ frame' = [ NoFrame EXCEPT !.caller = "getSpadInfo", !.step = "spad" ]
      /\ pc' = "spad"
      /\ answers' \in BOOLEAN
      /\ UNCHANGED << dev, ret, val >>

\* VL53L0X_performSingleRefCalibration, called on its own, up to its poll
\* loop
PerformSingleRefCalibration ==
  \E vhv_init_byte \in VhvInitBytes :
    LET w == << << "SYSRANGE_START", Or8(1, vhv_init_byte, 0) >> >>
    IN  /\ Enter("performSingleRefCalibration", "none", 0, 0)
        /\ regs' = ApplyWrites(regs, w)
        /\ writes' = w
        /\ frame' = [ NoFrame EXCEPT !.caller = "performSingleRefCalibration",
                                     !.step = "single" ]
        /\ pc' = "calib"
        /\ answers' \in BOOLEAN
        /\ UNCHANGED << dev, ret, val >>

\* a handle the caller has constructed and a device that an earlier run of
\* VL53L0X_init has configured.  No function of the driver gives did_timeout
\* its first value (VL53L0X_init does not assign it), so the handle comes
\* with either value of the flag.
InitDriver ==
  /\ regs = TunedRegs
  /\ \E io_2v8 \in BOOLEAN, did_timeout \in BOOLEAN :
       dev = [ measurement_timing_budget_us |-> 0,
               stop_variable |-> 0,
               did_timeout |-> did_timeout,
               io_2v8 |-> io_2v8,
               address |-> AddressDefault ]
  /\ pc = "idle"
  /\ answers = TRUE
  /\ frame = NoFrame
  /\ call = NoCall
  /\ ret = FALSE
  /\ val = 0
  /\ writes = << >>
  /\ regs0 = regs
  /\ dev0 = dev
  /\ calls = 0
  /\ CodecOff

NextDriver ==
  \/ InitDevice
  \/ SpadPoll
  \/ CalibrationPoll
  \/ SetMeasurementTimingBudget
  \/ GetMeasurementTimingBudget
  \/ GetVcselPulsePeriod
  \/ SetVcselPulsePeriod
  \/ StartContinuous
  \/ StopContinuous
  \/ ReadRangeContinuousMillimeters
  \/ ReadRangeSingleMillimeters
  \/ RangePoll
  \/ TimeoutOccurred
  \/ SetAddress
  \/ CallWriteReg
  \/ CallWriteReg16Bit
  \/ CallWriteReg32Bit
  \/ CallWriteMulti
  \/ SetSignalRateLimit
  \/ GetSpadInfo
  \/ PerformSingleRefCalibration

SpecDriver == InitDriver /\ [][NextDriver]_vars

\* the turn of the loop of lines 1314-1317 that reads a nonzero register 0x83
\* and goes on with the initialisation, or with the rest of
\* VL53L0X_getSpadInfo called on its own
SpadPollAnswered ==
  /\ pc = "spad"
  /\ answers
  /\ pc' \in { "calib", "idle" }

\* the caller keeps running the call it is in: each poll loop takes another
\* turn as long as a turn can change anything
FairSpecDriver ==
  /\ SpecDriver
  /\ WF_pc(SpadPollAnswered)
  /\ WF_vars(CalibrationPoll)
  /\ WF_vars(RangePoll)

(***************************************************************************)
(* The timeout codec on its own: every 16-bit timeout is encoded and the   *)
(* register value decoded back.                                            *)
(***************************************************************************)
InitCodec ==
  /\ regs = TunedRegs
  /\ dev = [ measurement_timing_budget_us |-> 0, stop_variable |-> 0,
             did_timeout |-> FALSE, io_2v8 |-> TRUE,
             address |-> AddressDefault ]
  /\ pc = "idle"
  /\ answers = TRUE
  /\ frame = NoFrame
  /\ call = NoCall
  /\ ret = FALSE
  /\ val = 0
  /\ writes = << >>
  /\ regs0 = regs
  /\ dev0 = dev
  /\ calls = 0
  /\ cin \in 0..(U16 - 1)
  /\ cenc = 0
  /\ cdec = 0
  /\ cper = 0
  /\ cstage \in { "input", "register" }

EncodeTimeout ==
  /\ cstage = "input"
  /\ cenc' = VL53L0X_encodeTimeout(cin)
  /\ cstage' = "encoded"
  /\ UNCHANGED << cin, cdec, cper >>
  /\ UNCHANGED mainVars

DecodeTimeout ==
  /\ cstage = "encoded"
  /\ cdec' = VL53L0X_decodeTimeout(cenc)
  /\ cstage' = "decoded"
  /\ UNCHANGED << cin, cenc, cper >>
  /\ UNCHANGED mainVars

\* VL53L0X_decodeTimeout on an arbitrary 16-bit register value
DecodeRegister ==
  /\ cstage = "register"
  /\ cdec' \in VL53L0X_decodeTimeoutOutcomes(cin)
  /\ cstage' = "regdecoded"
  /\ UNCHANGED << cin, cenc, cper >>
  /\ UNCHANGED mainVars

NextCodec == EncodeTimeout \/ DecodeTimeout \/ DecodeRegister

SpecCodec == InitCodec /\ [][NextCodec]_vars

(***************************************************************************)
(* The two timeout conversions on their own: a clock count is converted to *)
(* microseconds and back, and a microsecond value to clocks and back, at   *)
(* each valid VCSEL period.                                                *)
(***************************************************************************)
ValidPeriods == { 8, 10, 12, 14, 16, 18 }

\* microsecond inputs: every value up to MaxMicroseconds, a few larger ones,
\* and the values on either side of the points where the uint32_t sum
\* timeout_period_us * 1000 + macro_period_ns / 2 of
\* VL53L0X_timeoutMicrosecondsToMclks passes 2^32 (periods 18 and 8, and the
\* product alone)
SampleMicroseconds ==
  { 33000, 479392, 1999160, 3998320,
    4294932, 4294933, 4294952, 4294953, 4294967, 4294968 }

InitConv ==
  /\ regs = TunedRegs
  /\ dev = [ measurement_timing_budget_us |-> 0, stop_variable |-> 0,
             did_timeout |-> FALSE, io_2v8 |-> TRUE,
             address |-> AddressDefault ]
  /\ pc = "idle"
  /\ answers = TRUE
  /\ frame = NoFrame
  /\ call = NoCall
  /\ ret = FALSE
  /\ val = 0
  /\ writes = << >>
  /\ regs0 = regs
  /\ dev0 = dev
  /\ calls = 0
  /\ cper \in ValidPeriods
  /\ \/ cstage = "clocks" /\ cin \in 0..(U16 - 1)
     \/ cstage = "micros" /\ cin \in (0..MaxMicroseconds) \cup SampleMicroseconds
  /\ cenc = 0
  /\ cdec = 0

\* VL53L0X_timeoutMclksToMicroseconds; its uint16_t parameter keeps the 16
\* low bits of the clock count it is given
ConvertToMicroseconds ==
  /\ \/ /\ cstage = "clocks"
        /\ cenc' = VL53L0X_timeoutMclksToMicroseconds(cin, cper)
        /\ cstage' = "clocks_us"
        /\ UNCHANGED cdec
     \/ /\ cstage = "micros_clocks"
        /\ cdec' = VL53L0X_timeoutMclksToMicroseconds(cenc % U16, cper)
        /\ cstage' = "micros_back"
        /\ UNCHANGED cenc
  /\ UNCHANGED << cin, cper >>
  /\ UNCHANGED mainVars

\* VL53L0X_timeoutMicrosecondsToMclks
ConvertToMclks ==
  /\ \/ /\ cstage = "micros"
        /\ cenc' = VL53L0X_timeoutMicrosecondsToMclks(cin, cper)
        /\ cstage' = "micros_clocks"
        /\ UNCHANGED cdec
     \/ /\ cstage = "clocks_us"
        /\ cdec' = VL53L0X_timeoutMicrosecondsToMclks(cenc, cper)
        /\ cstage' = "clocks_back"
        /\ UNCHANGED cenc
  /\ UNCHANGED << cin, cper >>
  /\ UNCHANGED mainVars

NextConv == ConvertToMicroseconds \/ ConvertToMclks

SpecConv == InitConv /\ [][NextConv]_vars

(***************************************************************************)
(* Properties.                                                             *)
(***************************************************************************)
Returned(op) == pc = "idle" /\ call.op = op

Enables0 == VL53L0X_getSequenceStepEnables(regs0)
Timeouts0 == VL53L0X_getSequenceStepTimeouts(regs0, Enables0)

Cached  == dev.measurement_timing_budget_us
Cached0 == dev0.measurement_timing_budget_us

\* the step costs as the specification of the allocator states them
StatedStepCosts ==
    (IF Enables0.tcc THEN Timeouts0.msrc_dss_tcc_us + 590 ELSE 0)
  + (IF Enables0.dss THEN 2 * (Timeouts0.msrc_dss_tcc_us + 690)
     ELSE IF Enables0.msrc THEN Timeouts0.msrc_dss_tcc_us + 660 ELSE 0)
  + (IF Enables0.pre_range THEN Timeouts0.pre_range_us + 660 ELSE 0)

StatedUsed == 1320 + 960 + StatedStepCosts + 550

ValidRequest ==
  \/ call.type = "VcselPeriodPreRange" /\ call.period \in {12, 14, 16, 18}
  \/ call.type = "VcselPeriodFinalRange" /\ call.period \in {8, 10, 12, 14}

\* C1: a budget below 20000 us makes VL53L0X_setMeasurementTimingBudget
\* return failure with no register written and the cached budget unchanged.
C1_BudgetTooSmall ==
  (Returned("setMeasurementTimingBudget") /\ call.budget < 20000) =>
    /\ ret = FALSE
    /\ writes = << >>
    /\ regs = regs0
    /\ Cached = Cached0

C1_Witness ==
  /\ Returned("setMeasurementTimingBudget")
  /\ call.budget = 19999
  /\ Enables0.final_range
  /\ StatedUsed <= 19999
  /\ ret = FALSE

\* C2: with final_range enabled and a budget of at least 20000 us the call
\* fails exactly when the used budget exceeds the request, and a failure
\* writes no register and leaves the cached budget unchanged.
C2_TimeoutTooLarge ==
  (Returned("setMeasurementTimingBudget") /\ Enables0.final_range
     /\ call.budget >= 20000) =>
    /\ (ret = FALSE) <=> (StatedUsed > call.budget)
    /\ (ret = FALSE) => (writes = << >> /\ regs = regs0 /\ Cached = Cached0)

C2_Witness ==
  /\ Returned("setMeasurementTimingBudget")
  /\ Enables0.final_range
  /\ Enables0.dss
  /\ call.budget >= 20000
  /\ StatedUsed > call.budget
  /\ Cached0 # call.budget
  /\ ret = FALSE

\* C3 as stated: whenever the call returns success, in any step-enable
\* configuration, the cached budget equals the requested budget.
C3_AsStated ==
  (Returned("setMeasurementTimingBudget") /\ ret = TRUE) =>
    Cached = call.budget

\* C3 amended: a successful call leaves the cached budget equal to the
\* request when final_range is enabled, and unchanged (with no register
\* written) when final_range is disabled.
C3_CachedOnSuccess ==
  (Returned("setMeasurementTimingBudget") /\ ret = TRUE) =>
    IF Enables0.final_range
      THEN Cached = call.budget
      ELSE Cached = Cached0 /\ writes = << >>

C3_Witness ==
  /\ Returned("setMeasurementTimingBudget")
  /\ ret = TRUE
  /\ ~Enables0.final_range
  /\ Cached # call.budget

\* C4: VL53L0X_getMeasurementTimingBudget returns 1910 + 960 plus the step
\* costs of the timeouts on the device (plus final_range_us + 550 when
\* final_range is enabled), stores the returned value in the handle and
\* writes no register.
C4_GetBudget ==
  Returned("getMeasurementTimingBudget") =>
    /\ val = 1910 + 960 + StatedStepCosts
             + (IF Enables0.final_range
                  THEN Timeouts0.final_range_us + 550 ELSE 0)
    /\ Cached = val
    /\ writes = << >>
    /\ regs = regs0

C4_Witness ==
  /\ Returned("getMeasurementTimingBudget")
  /\ Enables0.final_range
  /\ Enables0.tcc
  /\ Cached0 # val
  /\ Cached = val

AllStepsEnabled0 ==
  /\ Enables0.tcc
  /\ Enables0.dss
  /\ Enables0.msrc
  /\ Enables0.pre_range
  /\ Enables0.final_range

\* C5: with all five steps enabled and a budget b >= 20000 equal to the sum
\* of the fixed overheads and the current step costs (read either without or
\* with the current final-range timeout), the set call succeeds and the
\* budget read back from the device right after it differs from b by 590 us
\* and a rounding of less than one final-range macro period.
C5_SetThenGet ==
  (Returned("setMeasurementTimingBudget") /\ AllStepsEnabled0
     /\ call.budget >= 20000
     /\ call.budget \in { StatedUsed, StatedUsed + Timeouts0.final_range_us }) =>
    /\ ret = TRUE
    /\ LET readback == VL53L0X_getMeasurementTimingBudget(regs)
           rounding == readback - call.budget - 590
           macro_period_ns ==
             calcMacroPeriod(Timeouts0.final_range_vcsel_period_pclks)
       IN  /\ rounding * 1000 < macro_period_ns
           /\ rounding * 1000 > -macro_period_ns
           /\ (call.budget = StatedUsed) => (rounding >= 0)

C5_Witness ==
  /\ Returned("setMeasurementTimingBudget")
  /\ AllStepsEnabled0
  /\ call.budget >= 20000
  /\ call.budget = StatedUsed
  /\ ret = TRUE
  /\ regs["FINAL_RANGE_CONFIG_TIMEOUT_MACROP_HI"]
       # regs0["FINAL_RANGE_CONFIG_TIMEOUT_MACROP_HI"]
  /\ VL53L0X_getMeasurementTimingBudget(regs) > call.budget + 590

\* C6: a period outside the step's allowed set, or an unknown step type,
\* makes VL53L0X_setVcselPulsePeriod return failure with no register written
\* and the handle unchanged.
C6_InvalidPeriod ==
  (call.op = "setVcselPulsePeriod" /\ ~ValidRequest) =>
    /\ pc = "idle"
    /\ ret = FALSE
    /\ writes = << >>
    /\ regs = regs0
    /\ dev = dev0

C6_Witness ==
  /\ Returned("setVcselPulsePeriod")
  /\ call.type = "VcselPeriodPreRange"
  /\ call.period = 13
  /\ ret = FALSE

OtherPeriodReg ==
  IF call.type = "VcselPeriodPreRange"
    THEN "FINAL_RANGE_CONFIG_VCSEL_PERIOD"
    ELSE "PRE_RANGE_CONFIG_VCSEL_PERIOD"

OwnPeriodReg ==
  IF call.type = "VcselPeriodPreRange"
    THEN "PRE_RANGE_CONFIG_VCSEL_PERIOD"
    ELSE "FINAL_RANGE_CONFIG_VCSEL_PERIOD"

\* C7: after a successful VL53L0X_setVcselPulsePeriod(type, p) the period
\* register holds (p >> 1) - 1, VL53L0X_getVcselPulsePeriod(type) gives p,
\* and the other step's period register is unchanged; every allowed period
\* of either step is accepted.
C7_PeriodRoundTrip ==
  (Returned("setVcselPulsePeriod") /\ ValidRequest) =>
    /\ ret = TRUE
    /\ regs[OwnPeriodReg] = (call.period \div 2) - 1
    /\ VL53L0X_getVcselPulsePeriod(regs, call.type) = call.period
    /\ regs[OtherPeriodReg] = regs0[OtherPeriodReg]

C7_Witness ==
  /\ Returned("setVcselPulsePeriod")
  /\ call.type = "VcselPeriodPreRange"
  /\ call.period = 12
  /\ ret = TRUE
  /\ VL53L0X_getVcselPulsePeriod(regs0, call.type) # 12

\* C8: when the re-application of the cached budget inside
\* VL53L0X_setVcselPulsePeriod fails, VL53L0X_setVcselPulsePeriod returns
\* failure.
C8_ReapplyFailurePropagates ==
  (Returned("setVcselPulsePeriod") /\ ValidRequest /\ ~frame.budget_ok) =>
    ret = FALSE

PhaseCalibrationWrites ==
  << << "SYSTEM_SEQUENCE_CONFIG", 2 >>,
     << "SYSRANGE_START", 1 >>,
     << "SYSTEM_INTERRUPT_CLEAR", 1 >>,
     << "SYSRANGE_START", 0 >>,
     << "SYSTEM_SEQUENCE_CONFIG", regs0["SYSTEM_SEQUENCE_CONFIG"] >> >>

\* C9: every VL53L0X_setVcselPulsePeriod call with a valid step and period
\* runs one phase calibration (SYSTEM_SEQUENCE_CONFIG = 0x02, SYSRANGE_START
\* = 0x01) after the budget re-application, whether that succeeded or not,
\* and returns with SYSTEM_SEQUENCE_CONFIG as it was when the call began.
C9_PhaseCalibration ==
  (Returned("setVcselPulsePeriod") /\ ValidRequest) =>
    LET n == Len(writes)
    IN  /\ n >= 5
        /\ SubSeq(writes, n - 4, n) = PhaseCalibrationWrites
        /\ \A i \in 1..(n - 5) :
             writes[i][1] \notin { "SYSTEM_SEQUENCE_CONFIG", "SYSRANGE_START",
                                   "SYSTEM_INTERRUPT_CLEAR" }
        /\ regs["SYSTEM_SEQUENCE_CONFIG"] = regs0["SYSTEM_SEQUENCE_CONFIG"]

C9_Witness ==
  /\ Returned("setVcselPulsePeriod")
  /\ ValidRequest
  /\ ~frame.budget_ok
  /\ regs0["SYSTEM_SEQUENCE_CONFIG"] = 255
  /\ regs["SYSTEM_SEQUENCE_CONFIG"] = 255
  /\ Len(writes) >= 5

\* C10: decoding an encoded timeout v gives v back for v in 1..256; for
\* every 16-bit v >= 1 it gives a value that is at most v and falls short of
\* v by less than 2^exponent, the exponent being the high byte of the
\* encoding.
C10_CodecRoundTrip ==
  (cstage = "decoded" /\ cin >= 1) =>
    /\ cdec <= cin
    /\ cin - cdec < 2 ^ (cenc \div 256)
    /\ (cin <= 256) => (cdec = cin)

C10_Witness ==
  /\ cstage = "decoded"
  /\ cin > 256
  /\ cdec < cin
  /\ cenc \div 256 >= 1

RegDecoded == cstage = "regdecoded"
Mantissa == cin % 256
Exponent == cin \div 256

\* the shift mantissa << exponent is defined in C: the count is below the
\* width of int and the result fits int
ShiftDefined == Exponent <= 23 \/ (Exponent <= 31 /\ Mantissa < 2 ^ (31 - Exponent))

\* C11 as stated: VL53L0X_decodeTimeout(reg_val) is the untruncated
\* (mantissa << exponent) + 1 for every 16-bit reg_val (beyond exponent 22
\* that value is above every 16-bit result unless the mantissa is 0).
C11_AsStated ==
  RegDecoded =>
    IF Exponent <= 22 THEN cdec = Mantissa * (2 ^ Exponent) + 1
    ELSE Mantissa = 0 /\ cdec = 1

\* C11 amended: wherever the shift is defined, VL53L0X_decodeTimeout(reg_val)
\* is the 16 low bits of mantissa << exponent, plus 1, and so the untruncated
\* (mantissa << exponent) + 1 whenever mantissa << exponent is below 65536.
C11_DecodeTruncated ==
  (RegDecoded /\ ShiftDefined) =>
    LET shifted == IF Mantissa = 0 THEN 0 ELSE Mantissa * (2 ^ Exponent)
    IN  /\ cdec = (shifted % 65536) + 1
        /\ (shifted < 65536) => (cdec = shifted + 1)

C11_Witness ==
  /\ RegDecoded
  /\ Mantissa = 255
  /\ Exponent = 9
  /\ cdec = 65025

MacroPeriodNs == calcMacroPeriod(cper)

\* C12 as stated: at every valid period, clocks -> microseconds -> clocks
\* differs from the clock count by at most 1, and microseconds -> clocks ->
\* microseconds differs from the microsecond value by at most 1.
C12_AsStated ==
  /\ (cstage = "clocks_back") => (cdec - cin <= 1 /\ cin - cdec <= 1)
  /\ (cstage = "micros_back") => (cdec - cin <= 1 /\ cin - cdec <= 1)

\* the largest microsecond value for which the uint32_t sum
\* timeout_period_us * 1000 + macro_period_ns / 2 stays below 2^32, written
\* as (2^32 - 1 - macro_period_ns / 2) / 1000 with 2^32 - 1 = 4294967295
LargestUnwrappedMicroseconds ==
  4294967 - ((MacroPeriodNs \div 2 + 704) \div 1000)

\* C12 amended: clocks -> microseconds -> clocks gives the clock count back
\* exactly at periods 8..16 and, at period 18, for counts up to 62575; from
\* 62576 on the 32-bit product wraps and the result is off by more than one
\* clock.  Microseconds -> clocks -> microseconds, for a value us with
\* us * 1000 + macro_period_ns / 2 below 2^32 whose clock count fits 16
\* bits, gives a value that is at least the input and exceeds it by at most
\* one macro period (macro_period_ns / 1000, rounded up).  From 2^32 on the
\* sum wraps and the value that comes back can be below the input:
\* 4294968 us at period 8 gives 0 clocks and 15 us, 4294933 us at period 18
\* gives 0 clocks and 34 us.
C12_RoundTrip ==
  /\ (cstage = "clocks_back") =>
       IF cper = 18 /\ cin >= 62576
         THEN cdec - cin > 1 \/ cin - cdec > 1
         ELSE cdec = cin
  /\ (cstage = "micros_back" /\ cin <= LargestUnwrappedMicroseconds
        /\ cenc < 65536) =>
       /\ cdec >= cin
       /\ (cdec - cin) * 1000 <= MacroPeriodNs
  /\ (cstage = "micros_back" /\ cper = 8 /\ cin = 4294968) =>
       (cenc = 0 /\ cdec = 15)
  /\ (cstage = "micros_back" /\ cper = 18 /\ cin = 4294933) =>
       (cenc = 0 /\ cdec = 34)

C12_Witness ==
  /\ cstage = "micros_back"
  /\ cper = 8
  /\ cin = 46
  /\ cenc = 2
  /\ cdec = 76

(***************************************************************************)
(* Properties of initialisation and ranging.                               *)
(***************************************************************************)
\* the position of the first write of `value` to `reg` in the call's writes,
\* 0 when there is none
FirstWriteOf(reg, value) ==
  IF \E i \in 1..Len(writes) : writes[i] = << reg, value >>
    THEN CHOOSE i \in 1..Len(writes) :
           /\ writes[i] = << reg, value >>
           /\ \A j \in 1..(i - 1) : writes[j] # << reg, value >>
    ELSE 0

\* the writes of the call from its first SYSTEM_SEQUENCE_CONFIG = 0x01 on
CalibrationTail ==
  LET i == FirstWriteOf("SYSTEM_SEQUENCE_CONFIG", 1)
  IN  IF i = 0 THEN << >> ELSE SubSeq(writes, i, Len(writes))

StatedCalibrationSequence ==
  << << "SYSTEM_SEQUENCE_CONFIG", 1 >>, << "SYSRANGE_START", 65 >>,
     << "SYSTEM_INTERRUPT_CLEAR", 1 >>, << "SYSRANGE_START", 0 >>,
     << "SYSTEM_SEQUENCE_CONFIG", 2 >>, << "SYSRANGE_START", 1 >>,
     << "SYSTEM_INTERRUPT_CLEAR", 1 >>, << "SYSRANGE_START", 0 >>,
     << "SYSTEM_SEQUENCE_CONFIG", 232 >> >>

\* the order of the two reference calibrations of VL53L0X_init: the VHV
\* calibration (SYSTEM_SEQUENCE_CONFIG = 0x01, SYSRANGE_START = 0x41) is
\* completed before the phase calibration (SYSTEM_SEQUENCE_CONFIG = 0x02,
\* SYSRANGE_START = 0x01) is started, 0xE8 is restored only after both have
\* completed, and then init returns success; an init that returns failure
\* has stopped inside one of the calibrations (or before them) with no later
\* SYSRANGE_START write and no restore
CalibrationOrder ==
  (call.op = "init" /\ pc \in { "calib", "idle" }) =>
    \/ /\ pc = "calib"
       /\ frame.step = "vhv"
       /\ CalibrationTail = SubSeq(StatedCalibrationSequence, 1, 2)
    \/ /\ pc = "calib"
       /\ frame.step = "phase"
       /\ CalibrationTail = SubSeq(StatedCalibrationSequence, 1, 6)
    \/ /\ pc = "idle"
       /\ ret = TRUE
       /\ CalibrationTail = StatedCalibrationSequence
       /\ regs["SYSTEM_SEQUENCE_CONFIG"] = 232
    \/ /\ pc = "idle"
       /\ ret = FALSE
       /\ CalibrationTail \in { << >>,
                                SubSeq(StatedCalibrationSequence, 1, 2),
                                SubSeq(StatedCalibrationSequence, 1, 6) }

\* C13: VL53L0X_init runs the VHV calibration, then the phase calibration,
\* then restores SYSTEM_SEQUENCE_CONFIG = 0xE8 and returns success; and if
\* the device never reports a calibration complete, init returns failure,
\* having issued no further SYSRANGE_START write and no restore.
C13_CalibrationOutcome ==
  /\ [] CalibrationOrder
  /\ (call.op = "init" /\ pc = "calib" /\ ~answers) ~>
       ( /\ Returned("init")
         /\ ret = FALSE
         /\ CalibrationTail \in { SubSeq(StatedCalibrationSequence, 1, 2),
                                  SubSeq(StatedCalibrationSequence, 1, 6) } )

\* C14: every poll loop is bounded by the timeout check: a call that sits in
\* a poll loop (reference SPAD discovery, reference calibration, single-shot
\* start-bit wait) whose awaited device answer never comes still leaves the
\* loop and returns.
C14_PollLoopsExit ==
  (pc \in { "spad", "calib", "range" } /\ ~answers) ~> (pc = "idle")

\* C15: if the start bit never clears after VL53L0X_readRangeSingleMillimeters
\* has started a measurement, the call eventually returns 65535 with
\* did_timeout set, without reading the range or clearing the interrupt; if
\* the bit clears, the call returns the range read and leaves did_timeout
\* unchanged.
C15_SingleShotRead ==
  /\ (pc = "range" /\ ~answers) ~>
       ( /\ Returned("readRangeSingleMillimeters")
         /\ val = 65535
         /\ dev.did_timeout
         /\ Len(writes) = 8 )
  /\ []( (Returned("readRangeSingleMillimeters") /\ regs["SYSRANGE_START"] % 2 = 0) =>
           ( /\ val = regs["RESULT_RANGE_STATUS + 10"]
             /\ dev.did_timeout = dev0.did_timeout ) )

\* C16 as stated: VL53L0X_timeoutOccurred returns the flag did_timeout as it
\* was and leaves it false, touching nothing else; a call that directly
\* follows another VL53L0X_timeoutOccurred returns false; and the flag is
\* true only if a single-shot read has timed out since the last
\* VL53L0X_timeoutOccurred: a VL53L0X_timeoutOccurred that is the first call
\* made on a handle, no read having timed out before it, returns false, and
\* the flag only ever becomes true in the timeout return of a single-shot
\* read.
C16_AsStated ==
  /\ []( Returned("timeoutOccurred") =>
           ( /\ ret = dev0.did_timeout
             /\ dev = [ dev0 EXCEPT !.did_timeout = FALSE ]
             /\ regs = regs0 ) )
  /\ [][ ( /\ Returned("timeoutOccurred")
           /\ calls' = calls + 1
           /\ call'.op = "timeoutOccurred" ) => (ret' = FALSE) ]_vars
  /\ []( (Returned("timeoutOccurred") /\ calls = 1) => ret = FALSE )
  /\ [][ (~dev.did_timeout /\ dev'.did_timeout) =>
           ( /\ pc = "range"
             /\ pc' = "idle"
             /\ call.op = "readRangeSingleMillimeters"
             /\ val' = 65535 ) ]_vars

\* C16 amended: VL53L0X_timeoutOccurred returns the flag did_timeout as it
\* was and leaves it false, touching nothing else; a call that directly
\* follows another VL53L0X_timeoutOccurred returns false; and the flag is
\* true only if a single-shot read has timed out since the last
\* VL53L0X_timeoutOccurred, or if the handle was constructed with the flag
\* set and VL53L0X_timeoutOccurred has not been called on it since: the
\* flag only ever becomes true in the timeout return of a single-shot read.
C16_StickyFlag ==
  /\ []( Returned("timeoutOccurred") =>
           ( /\ ret = dev0.did_timeout
             /\ dev = [ dev0 EXCEPT !.did_timeout = FALSE ]
             /\ regs = regs0 ) )
  /\ [][ ( /\ Returned("timeoutOccurred")
           /\ calls' = calls + 1
           /\ call'.op = "timeoutOccurred" ) => (ret' = FALSE) ]_vars
  /\ [][ (~dev.did_timeout /\ dev'.did_timeout) =>
           ( /\ pc = "range"
             /\ pc' = "idle"
             /\ call.op = "readRangeSingleMillimeters"
             /\ val' = 65535 ) ]_vars

\* VL53L0X_timeoutOccurred has returned a flag that was set and has cleared
\* it
C16_Witness ==
  /\ Returned("timeoutOccurred")
  /\ dev0.did_timeout
  /\ ret = TRUE
  /\ ~dev.did_timeout
  /\ regs = regs0

\* the number a 32-bit register holds, most significant byte first
Value32(bytes) ==
  ((bytes[1] * 256 + bytes[2]) * 256 + bytes[3]) * 256 + bytes[4]

\* C17 as stated: VL53L0X_startContinuous with period_ms = 0 writes
\* SYSRANGE_START = 0x02 and no inter-measurement period; with period_ms # 0
\* it writes SYSTEM_INTERMEASUREMENT_PERIOD = period_ms * osc_calibrate_val
\* when the oscillator calibration value read is nonzero (period_ms when it
\* is zero) and only then SYSRANGE_START = 0x04.
C17_AsStated ==
  Returned("startContinuous") =>
    LET n == Len(writes)
        osc == regs["OSC_CALIBRATE_VAL"]
    IN  IF call.period = 0
          THEN /\ n = 8
               /\ writes[8] = << "SYSRANGE_START", 2 >>
               /\ \A i \in 1..n : writes[i][1] # "SYSTEM_INTERMEASUREMENT_PERIOD"
          ELSE /\ n = 9
               /\ writes[8][1] = "SYSTEM_INTERMEASUREMENT_PERIOD"
               /\ LET v == Value32(writes[8][2])
                  IN  IF osc = 0 THEN v = call.period
                      ELSE v % osc = 0 /\ v \div osc = call.period
               /\ writes[9] = << "SYSRANGE_START", 4 >>

\* period_ms * osc_calibrate_val modulo 2^32, the uint32_t product
StatedInterMeasurementPeriod ==
  LET osc == regs["OSC_CALIBRATE_VAL"]
  IN  IF osc = 0 THEN Bytes32(call.period)
      ELSE IF call.period = 70000 /\ osc = 65535
        THEN << 17, 110, 238, 144 >>     \* 4587450000 - 2^32 = 292482704
      ELSE Bytes32(call.period * osc)

\* C17: as stated, with the product taken modulo 2^32: with period_ms # 0 the
\* call writes SYSTEM_INTERMEASUREMENT_PERIOD = (period_ms *
\* osc_calibrate_val) mod 2^32 when the oscillator calibration value read is
\* nonzero (period_ms when it is zero) and then SYSRANGE_START = 0x04; with
\* period_ms = 0 it writes SYSRANGE_START = 0x02 and no inter-measurement
\* period; both after the stop-variable writes.
C17_StartContinuous ==
  Returned("startContinuous") =>
    LET n == Len(writes)
    IN  IF call.period = 0
          THEN /\ n = 8
               /\ writes[8] = << "SYSRANGE_START", 2 >>
               /\ \A i \in 1..n : writes[i][1] # "SYSTEM_INTERMEASUREMENT_PERIOD"
               /\ regs["SYSTEM_INTERMEASUREMENT_PERIOD"]
                    = regs0["SYSTEM_INTERMEASUREMENT_PERIOD"]
          ELSE /\ n = 9
               /\ writes[8] = << "SYSTEM_INTERMEASUREMENT_PERIOD",
                                 StatedInterMeasurementPeriod >>
               /\ writes[9] = << "SYSRANGE_START", 4 >>

C17_Witness ==
  /\ Returned("startContinuous")
  /\ call.period = 70000
  /\ regs["OSC_CALIBRATE_VAL"] = 65535
  /\ regs["SYSTEM_INTERMEASUREMENT_PERIOD"] = << 17, 110, 238, 144 >>
  /\ regs["SYSRANGE_START"] = 4

\* C18: the handle's stop_variable changes only in VL53L0X_init, which sets
\* it to the content of register 0x91; and in VL53L0X_startContinuous and
\* VL53L0X_readRangeSingleMillimeters every SYSRANGE_START write is preceded,
\* in the same call, by a write of the stored stop_variable to register 0x91.
C18_StopVariable ==
  /\ [][ (dev'.stop_variable # dev.stop_variable) =>
           ( /\ call'.op = "init"
             /\ pc = "idle"
             /\ dev'.stop_variable = regs["0x91"] ) ]_vars
  /\ []( (call.op \in { "startContinuous", "readRangeSingleMillimeters" }) =>
           ( /\ dev.stop_variable = dev0.stop_variable
             /\ \A i \in 1..Len(writes) :
                  (writes[i][1] = "SYSRANGE_START") =>
                    \E j \in 1..(i - 1) :
                      writes[j] = << "0x91", dev0.stop_variable >> ) )

C18_Witness ==
  /\ Returned("readRangeSingleMillimeters")
  /\ dev0.stop_variable = 60
  /\ writes[4] = << "0x91", 60 >>
  /\ writes[8] = << "SYSRANGE_START", 1 >>

FinalRangeRegisterMclks(r) ==
  VL53L0X_decodeTimeout(r["FINAL_RANGE_CONFIG_TIMEOUT_MACROP_HI"])

PreRangeRegisterMclks(r) ==
  VL53L0X_decodeTimeout(r["PRE_RANGE_CONFIG_TIMEOUT_MACROP_HI"])

\* C19: on a device with pre_range and final_range enabled whose final-range
\* timeout register decodes to at least the pre-range one, the first
\* VL53L0X_setMeasurementTimingBudget or VL53L0X_setVcselPulsePeriod call of
\* any sequence, successful or failed, returns with the final-range timeout
\* register still decoding to at least the pre-range one.
C19_StaysReadable ==
  ( /\ pc = "idle"
    /\ calls = 1
    /\ call.op \in { "setMeasurementTimingBudget", "setVcselPulsePeriod" }
    /\ Enables0.pre_range
    /\ Enables0.final_range
    /\ FinalRangeRegisterMclks(regs0) >= PreRangeRegisterMclks(regs0) ) =>
    FinalRangeRegisterMclks(regs) >= PreRangeRegisterMclks(regs)

\* the value of the first write to `reg` in the call's writes
FirstValueWritten(reg) ==
  writes[CHOOSE i \in 1..Len(writes) :
           /\ writes[i][1] = reg
           /\ \A j \in 1..(i - 1) : writes[j][1] # reg][2]

Min(a, b) == IF a < b THEN a ELSE b

\* C20 as stated: VL53L0X_setVcselPulsePeriod recomputes the affected
\* timeout from the microsecond timeout read before its first write, at the
\* new period: for FinalRange it writes encode(microsecondsToMclks(old
\* final_range_us, p) + (old pre_range_mclks if pre_range is enabled)) to the
\* final-range timeout register; for PreRange it writes
\* encode(microsecondsToMclks(old pre_range_us, p)) to the pre-range timeout
\* register and min(microsecondsToMclks(old msrc_dss_tcc_us, p), 256) - 1, a
\* value in 0..255, to the MSRC timeout register.
C20_AsStated ==
  (call.op = "setVcselPulsePeriod" /\ ValidRequest) =>
    IF call.type = "VcselPeriodFinalRange"
      THEN FirstValueWritten("FINAL_RANGE_CONFIG_TIMEOUT_MACROP_HI") =
             VL53L0X_encodeTimeout(
               VL53L0X_timeoutMicrosecondsToMclks(Timeouts0.final_range_us, call.period)
               + (IF Enables0.pre_range THEN Timeouts0.pre_range_mclks ELSE 0))
      ELSE /\ FirstValueWritten("PRE_RANGE_CONFIG_TIMEOUT_MACROP_HI") =
                VL53L0X_encodeTimeout(
                  VL53L0X_timeoutMicrosecondsToMclks(Timeouts0.pre_range_us, call.period))
           /\ LET msrc == FirstValueWritten("MSRC_CONFIG_TIMEOUT_MACROP")
              IN  /\ msrc = Min(VL53L0X_timeoutMicrosecondsToMclks(
                                  Timeouts0.msrc_dss_tcc_us, call.period), 256) - 1
                  /\ msrc \in 0..255

\* C20: as stated, except that every clock count is kept in 16 bits: the
\* value encoded for FinalRange is (microsecondsToMclks(old final_range_us,
\* p) + (old pre_range_mclks if pre_range is enabled)) mod 2^16, the value
\* encoded for PreRange is microsecondsToMclks(old pre_range_us, p) mod 2^16,
\* and the MSRC register gets min(microsecondsToMclks(old msrc_dss_tcc_us, p)
\* mod 2^16, 256) - 1, a value in 0..255.
C20_TimeoutRecomputed ==
  (call.op = "setVcselPulsePeriod" /\ ValidRequest) =>
    IF call.type = "VcselPeriodFinalRange"
      THEN FirstValueWritten("FINAL_RANGE_CONFIG_TIMEOUT_MACROP_HI") =
             VL53L0X_encodeTimeout(
               ( VL53L0X_timeoutMicrosecondsToMclks(Timeouts0.final_range_us, call.period)
                 + (IF Enables0.pre_range THEN Timeouts0.pre_range_mclks ELSE 0) ) % U16)
      ELSE /\ FirstValueWritten("PRE_RANGE_CONFIG_TIMEOUT_MACROP_HI") =
                VL53L0X_encodeTimeout(
                  VL53L0X_timeoutMicrosecondsToMclks(Timeouts0.pre_range_us, call.period) % U16)
           /\ LET msrc == FirstValueWritten("MSRC_CONFIG_TIMEOUT_MACROP")
              IN  /\ msrc = Min(VL53L0X_timeoutMicrosecondsToMclks(
                                  Timeouts0.msrc_dss_tcc_us, call.period) % U16, 256) - 1
                  /\ msrc \in 0..255

C20_Witness ==
  /\ Returned("setVcselPulsePeriod")
  /\ call.type = "VcselPeriodPreRange"
  /\ VL53L0X_timeoutMicrosecondsToMclks(Timeouts0.pre_range_us, call.period) >= U16
  /\ regs["PRE_RANGE_CONFIG_TIMEOUT_MACROP_HI"] =
       VL53L0X_encodeTimeout(
         VL53L0X_timeoutMicrosecondsToMclks(Timeouts0.pre_range_us, call.period) % U16)
  /\ regs["MSRC_CONFIG_TIMEOUT_MACROP"] \in 0..255

(***************************************************************************)
(* The order of the steps of VL53L0X_init.                                 *)
(***************************************************************************)
\* the position of the first write to `reg` after position i in the call's
\* writes, 0 when there is none
FirstWriteToAfter(reg, i) ==
  IF \E k \in (i + 1)..Len(writes) : writes[k][1] = reg
    THEN CHOOSE k \in (i + 1)..Len(writes) :
           /\ writes[k][1] = reg
           /\ \A j \in (i + 1)..(k - 1) : writes[j][1] # reg
    ELSE 0

\* where the steps of VL53L0X_init show in its writes
RateLimitAt   == FirstWriteOf("FINAL_RANGE_CONFIG_MIN_COUNT_RATE_RTN_LIMIT", 32)
SpadBeginAt   == FirstWriteOf("0x94", 107)
SpadEndAt     == FirstWriteOf("0x83", 1)
SequenceSetAt == FirstWriteOf("SYSTEM_SEQUENCE_CONFIG", 232)
ReapplyAt     == FirstWriteToAfter("FINAL_RANGE_CONFIG_TIMEOUT_MACROP_HI",
                                   SequenceSetAt)
VhvAt         == FirstWriteOf("SYSTEM_SEQUENCE_CONFIG", 1)
PhaseAt       == FirstWriteOf("SYSTEM_SEQUENCE_CONFIG", 2)

\* the initial budget is the one read from the registers as they are right
\* before SYSTEM_SEQUENCE_CONFIG = 0xE8 is written
BudgetComputedBeforeSequenceSet ==
  Cached = VL53L0X_getMeasurementTimingBudget(
             ApplyWrites(regs0, SubSeq(writes, 1, SequenceSetAt - 1)))

\* C21 as stated: reference-SPAD discovery, then the signal-rate limit, then
\* the computation of the budget, then VHV and phase calibration, then the
\* reapplication of the budget.
C21_AsStated ==
  (Returned("init") /\ ret = TRUE) =>
    /\ 0 < SpadBeginAt /\ SpadEndAt < RateLimitAt
    /\ RateLimitAt < SequenceSetAt
    /\ BudgetComputedBeforeSequenceSet
    /\ SequenceSetAt < VhvAt /\ VhvAt < PhaseAt
    /\ PhaseAt < ReapplyAt

\* C21: a successful VL53L0X_init programs the default signal-rate limit,
\* then discovers the reference SPADs, then computes the initial budget (from
\* the registers as they are before SYSTEM_SEQUENCE_CONFIG = 0xE8), then
\* reapplies the budget, then runs the VHV and then the phase calibration.
C21_InitOrder ==
  (Returned("init") /\ ret = TRUE) =>
    /\ 0 < RateLimitAt /\ RateLimitAt < SpadBeginAt
    /\ SpadBeginAt < SpadEndAt /\ SpadEndAt < SequenceSetAt
    /\ BudgetComputedBeforeSequenceSet
    /\ SequenceSetAt < ReapplyAt
    /\ ReapplyAt < VhvAt /\ VhvAt < PhaseAt

C21_Witness ==
  /\ Returned("init")
  /\ ret = TRUE
  /\ RateLimitAt > 0
  /\ SpadBeginAt > RateLimitAt
  /\ ReapplyAt > SequenceSetAt
  /\ VhvAt > ReapplyAt
  /\ Cached > 0

(***************************************************************************)
(* The bank-select register.                                               *)
(***************************************************************************)
\* C22: an operation called with the bank-select register 0xFF at 0 has it
\* at 0 again at every return it makes, successful or not.
C22_BankSelectOnReturn ==
  (pc = "idle" /\ calls > 0 /\ regs0["0xFF"] = 0) => regs["0xFF"] = 0

\* VL53L0X_getSpadInfo, called in bank 0, has returned after selecting bank 7
\* for its poll loop
C22_Witness ==
  /\ Returned("getSpadInfo")
  /\ ret = TRUE
  /\ regs0["0xFF"] = 0
  /\ \E i \in 1..Len(writes) : writes[i] = << "0xFF", 7 >>
  /\ regs["0xFF"] = 0

(***************************************************************************)
(* The conversion of clocks to microseconds.                               *)
(***************************************************************************)
\* (clks * macro_period_ns + macro_period_ns / 2) / 1000 over the integers,
\* with macro_period_ns = (2304 * p * 1655 + 500) / 1000; clks is split at
\* 1000 to keep every intermediate value small
StatedMicroseconds(clks, p) ==
  LET macro_period_ns == (2304 * p * 1655 + 500) \div 1000
  IN  (clks \div 1000) * macro_period_ns +
        ((clks % 1000) * macro_period_ns + macro_period_ns \div 2) \div 1000

\* the same with 2^32 = 4294967 * 1000 + 296 taken off the sum before the
\* division
StatedMicrosecondsWrappedOnce(clks, p) ==
  LET macro_period_ns == (2304 * p * 1655 + 500) \div 1000
  IN  ((clks \div 1000) * macro_period_ns - 4294967) +
        ((clks % 1000) * macro_period_ns + macro_period_ns \div 2 - 296) \div 1000

\* C23 as stated: for every 16-bit clock count and every valid pulse period
\* VL53L0X_timeoutMclksToMicroseconds returns exactly
\* (clks * macro_period_ns + macro_period_ns / 2) / 1000, the product not
\* wrapping around in 32 bits.
C23_AsStated ==
  (cstage = "clocks_us") => cenc = StatedMicroseconds(cin, cper)

\* C23: VL53L0X_timeoutMclksToMicroseconds returns exactly
\* (clks * macro_period_ns + macro_period_ns / 2) / 1000 for every 16-bit
\* clock count at the periods 8, 10, 12, 14 and 16, and at period 18 for the
\* counts up to 62575; at period 18 from 62576 clocks on the sum has wrapped
\* around 2^32 once and the result is the stated value of the wrapped sum.
C23_MclksToMicroseconds ==
  (cstage = "clocks_us") =>
    IF cper = 18 /\ cin >= 62576
      THEN /\ cenc = StatedMicrosecondsWrappedOnce(cin, cper)
           /\ cenc < StatedMicroseconds(cin, cper)
      ELSE cenc = StatedMicroseconds(cin, cper)

C23_Witness ==
  /\ cstage = "clocks_us"
  /\ cper = 18
  /\ cin = 62576
  /\ cenc = 33
  /\ StatedMicroseconds(cin, cper) = 4295000

(***************************************************************************)
(* The final-range timeout as a function of the budget.                    *)
(***************************************************************************)
\* the final-range timeout, decoded, that VL53L0X_setMeasurementTimingBudget
\* writes for budget_us on the register file r
FinalRangeTimeoutFor(r, budget_us) ==
  VL53L0X_decodeTimeout(
    VL53L0X_setMeasurementTimingBudget(r, 0, budget_us).writes[1][2])

\* C24: on one device state with the final range enabled, of two accepted
\* budgets the smaller one gets a final-range timeout that decodes to no more
\* than that of the larger one.
C24_BudgetMonotone ==
  (/\ Returned("setMeasurementTimingBudget")
   /\ ret = TRUE
   /\ Enables0.final_range) =>
    \A b1 \in RequestedBudgets(regs0) :
      (/\ b1 <= call.budget
       /\ VL53L0X_setMeasurementTimingBudget(regs0, 0, b1).ret) =>
        FinalRangeTimeoutFor(regs0, b1) <=
          VL53L0X_decodeTimeout(regs["FINAL_RANGE_CONFIG_TIMEOUT_MACROP_HI"])

(***************************************************************************)
(* The slave address.                                                      *)
(***************************************************************************)
\* the handle holds the address programmed into the device
StoredAddressIsProgrammed ==
  Returned("setAddress") =>
    /\ regs["I2C_SLAVE_DEVICE_ADDRESS"] = call.new_addr % 128
    /\ dev.address = regs["I2C_SLAVE_DEVICE_ADDRESS"]

\* the register accesses of a call go to the address the handle held when
\* the call began
BusAddressIsStored ==
  (pc = "idle" /\ calls > 0) => call.slave = dev0.address

\* C25: after VL53L0X_setAddress(new_addr) the handle holds the 7-bit address
\* programmed into the device, new_addr & 0x7F, and every later register
\* access of the driver puts the address held by the handle on the bus.
C25_AddressUsed ==
  /\ StoredAddressIsProgrammed
  /\ BusAddressIsStored

====
